---- MODULE Spec2Model ----
(***************************************************************************)
(* Model of the skills-api refresh pipeline: the refresh orchestrator      *)
(* (scheduler/index.ts), the staleness reconciler and validator            *)
(* (scraper/validate.ts), enrichment (scraper/scrape.ts), the storage      *)
(* resolver (storage/index.ts, storage/s3.ts) and the in-process registry  *)
(* (registry/data.ts).                                                     *)
(*                                                                         *)
(* Strings that the code takes apart (source, skillId, name) are sequences *)
(* of one-character strings; messages are sequences of string tokens.      *)
(* Timestamps are milliseconds; an ISO string is a record wrapping them.   *)
(***************************************************************************)
EXTENDS Integers, Sequences, FiniteSets, TLC

\* ------------------------------------------------------------------ bounds

\* Number of calls of refreshSkillsData / POST /admin/refresh in one behaviour.
MaxInvocations == 2

\* Number of times the clock advances in one behaviour.
MaxTicks == 2

\* Number of I/O failures (a throwing scrape, a failed remote read or write, a
\* failed file write, a failed tree fetch) in one behaviour.
MaxFaults == 1

\* Longest list of one repository's skills handed to filterRepoSkills directly.
MaxRepoSkills == 3

\* Longest candidate list in the calls of validateScrapedData that vary the
\* skill and source floors.
MaxCand == 4

\* One clock step: 12 hours in milliseconds.
TickMs == 12 * 60 * 60 * 1000

\* Thresholds the orchestrator passes to the validator.  The code passes
\* 1000 / 100 / 50; the skill and source floors are scaled to the size of the
\* lists of this model (at most four skills over two sources).
RefreshMinSkillCount == 2

RefreshMinSourceCount == 2

RefreshMaxDropPercentage == 50

\* validate.ts
VALIDATION_TTL_MS == 24 * 60 * 60 * 1000

BATCH_SIZE == 10

\* ------------------------------------------------------------------ values

Null == [null |-> TRUE]

NoData == [absent |-> TRUE]

Corrupt == [corrupt |-> TRUE]

Min(a, b) == IF a < b THEN a ELSE b

Max(a, b) == IF a > b THEN a ELSE b

Range(s) == {s[k] : k \in 1..Len(s)}

RECURSIVE SumSeq(_)
SumSeq(s) ==
    IF Len(s) = 0 THEN 0
    ELSE IF Len(s) = 1 THEN s[1]
    ELSE LET h == Len(s) \div 2
         IN  SumSeq(SubSeq(s, 1, h)) + SumSeq(SubSeq(s, h + 1, Len(s)))

RECURSIVE Flatten(_)
Flatten(ss) == IF ss = <<>> THEN <<>> ELSE Head(ss) \o Flatten(Tail(ss))

\* Array.prototype.filter
RECURSIVE FilterSeq(_, _)
FilterSeq(s, keep) ==
    IF s = <<>> THEN <<>>
    ELSE (IF Head(s) \in keep THEN <<Head(s)>> ELSE <<>>) \o FilterSeq(Tail(s), keep)

\* new Date(ms).toISOString() and new Date(iso).getTime()
toISOString(ms) == [iso |-> ms]

getTime(d) == d.iso

\* String.prototype.split(sep) on a sequence of characters: never empty.
RECURSIVE split(_, _)
split(s, sep) ==
    IF \A k \in 1..Len(s) : s[k] # sep THEN <<s>>
    ELSE LET k == CHOOSE j \in 1..Len(s) : s[j] = sep /\ \A m \in 1..(j - 1) : s[m] # sep
         IN  <<SubSeq(s, 1, k - 1)>> \o split(SubSeq(s, k + 1, Len(s)), sep)

\* Array.prototype.join(sep) of token sequences
RECURSIVE join(_, _)
join(parts, sep) ==
    IF parts = <<>> THEN <<>>
    ELSE IF Len(parts) = 1 THEN parts[1]
    ELSE parts[1] \o sep \o join(Tail(parts), sep)

toUpperCase(c) ==
    CASE c = "a" -> "A" [] c = "b" -> "B" [] c = "c" -> "C" [] c = "d" -> "D"
      [] c = "x" -> "X" [] c = "y" -> "Y" [] OTHER -> c

\* ------------------------------------------------------------- scrape.ts

formatDisplayName(name) ==
    LET words == split(name, "-")
        cap(w) == IF w = <<>> THEN <<>> ELSE <<toUpperCase(w[1])>> \o Tail(w)
    IN  join([k \in 1..Len(words) |-> cap(words[k])], <<" ">>)

enrichSkill(skill) ==
    LET parts == split(skill.source, "/")
    IN  [source |-> skill.source, skillId |-> skill.skillId, name |-> skill.name,
         installs |-> skill.installs,
         owner |-> parts[1],
         repo |-> IF Len(parts) >= 2 THEN parts[2] ELSE <<>>,
         githubUrl |-> <<"https://github.com/">> \o skill.source,
         displayName |-> formatDisplayName(skill.name)]

enrichSkills(skills) == [k \in 1..Len(skills) |-> enrichSkill(skills[k])]

\* Only the length of the sorted array is used by the callers.
getUniqueSources(skills) == {skills[k].source : k \in 1..Len(skills)}

getUniqueOwners(skills) ==
    {split(skills[k].source, "/")[1] : k \in 1..Len(skills)} \ {<<>>}

\* ----------------------------------------------------------- validate.ts

\* Number.prototype.toFixed(1) of num / den, as tokens (num, den > 0 here).
toFixed1(num, den) ==
    LET tenths == (2 * 10 * num + den) \div (2 * den)
    IN  <<ToString(tenths \div 10), ".", ToString(tenths % 10)>>

\* A property read of an object: undefined when the property is absent.
Undefined == <<"undefined">>

field(rec, f) == IF f \in DOMAIN rec THEN rec[f] ELSE Undefined

\* !v for a string, null or undefined
falsy(v) == v = Undefined \/ v = <<>>

\* A destructuring default: the option when supplied, else `default`.
option(options, f, default) == IF f \in DOMAIN options THEN options[f] ELSE default

\* The whole percentages k for which the double (k / 100) * 100 is larger than
\* k: ((P - C) / P) * 100 > k is true there although the drop is exactly k.
DoubleRoundsUp == {7, 14, 28, 55, 56}

\* ((p - n) / p) * 100 > limit, in double arithmetic, for a whole limit
dropExceeds(p, n, limit) ==
    \/ (p - n) * 100 > limit * p
    \/ (p - n) * 100 = limit * p /\ limit \in DoubleRoundsUp

\* The floor checks with a count equal to its floor rejected as well.
floorErrors_Inclusive(n, sourceCount, minSkillCount, minSourceCount) ==
    (IF n <= minSkillCount
     THEN << <<"Skill count (", ToString(n), ") below minimum threshold (",
               ToString(minSkillCount), "). ",
               "This likely indicates a scraping failure.">> >>
     ELSE <<>>)
    \o
    (IF sourceCount <= minSourceCount
     THEN << <<"Source count (", ToString(sourceCount),
               ") below minimum threshold (", ToString(minSourceCount), "). ",
               "This likely indicates incomplete data.">> >>
     ELSE <<>>)

\* The floor checks on the skill count and the source count.
floorErrors(n, sourceCount, minSkillCount, minSourceCount) ==
    (IF n < minSkillCount
     THEN << <<"Skill count (", ToString(n), ") below minimum threshold (",
               ToString(minSkillCount), "). ",
               "This likely indicates a scraping failure.">> >>
     ELSE <<>>)
    \o
    (IF sourceCount < minSourceCount
     THEN << <<"Source count (", ToString(sourceCount),
               ") below minimum threshold (", ToString(minSourceCount), "). ",
               "This likely indicates incomplete data.">> >>
     ELSE <<>>)

\* validateScrapedData without the check for an empty list.
emptyError_Never(n) == <<>>

\* The check for an empty list.
emptyError(n) ==
    IF n = 0
    THEN << <<"No skills scraped. The page structure may have changed.">> >>
    ELSE <<>>

\* The structure check made on every record of the list.
sampleError_WholeList(skills) ==
    LET sampleSize == Len(skills)
        malformedCount ==
            Cardinality({k \in 1..sampleSize :
                \/ falsy(field(skills[k], "source"))
                \/ falsy(field(skills[k], "skillId"))
                \/ falsy(field(skills[k], "name"))})
    IN  IF 10 * malformedCount > sampleSize
        THEN << <<ToString(malformedCount), "/", ToString(sampleSize),
                  " sampled skills have missing required fields. ",
                  "Data structure may have changed.">> >>
        ELSE <<>>

\* The structure check on the first records of the list.
sampleError(skills) ==
    LET sampleSize == Min(100, Len(skills))
        malformedCount ==
            Cardinality({k \in 1..sampleSize :
                \/ falsy(field(skills[k], "source"))
                \/ falsy(field(skills[k], "skillId"))
                \/ falsy(field(skills[k], "name"))})
    IN  \* malformedCount > sampleSize * 0.1
        IF 10 * malformedCount > sampleSize
        THEN << <<ToString(malformedCount), "/", ToString(sampleSize),
                  " sampled skills have missing required fields. ",
                  "Data structure may have changed.">> >>
        ELSE <<>>

\* The comparison of the skill count with the previous snapshot of p > 0 skills.
dropCheck(p, n, maxDropPercentage) ==
    LET dropText == <<"Skill count dropped by ">> \o toFixed1((p - n) * 100, p)
                    \o <<"% ", "(", ToString(p), " -> ", ToString(n), ").">>
    IN  IF dropExceeds(p, n, maxDropPercentage)
        THEN [errors |-> << dropText \o <<" ", "This exceeds the maximum allowed drop of ",
                                          ToString(maxDropPercentage), "%.">> >>,
              warnings |-> <<>>]
        ELSE IF dropExceeds(p, n, 10)
        THEN [errors |-> <<>>, warnings |-> << dropText >>]
        ELSE [errors |-> <<>>, warnings |-> <<>>]

\* The comparison of the install totals, and the duplicate-name check.
installsWarning(totalInstalls, prevTotalInstalls) ==
    \* totalInstalls < prevTotalInstalls * 0.5
    IF 2 * totalInstalls < prevTotalInstalls
    THEN << <<"Total installs dropped significantly. This may indicate data issues.">> >>
    ELSE <<>>

namesWarning(skills) ==
    LET n == Len(skills)
        uniqueNames == {field(skills[k], "name") : k \in 1..n}
    IN  \* uniqueNames.size < skills.length * 0.9
        IF 10 * Cardinality(uniqueNames) < 9 * n
        THEN << <<"High duplicate name ratio detected (", ToString(Cardinality(uniqueNames)),
                  " unique / ", ToString(n), " total).">> >>
        ELSE <<>>

\* The returned object, with valid true only when there is no warning either.
verdict_WarningsCount(errors, warnings, stats) ==
    [valid |-> Len(errors) = 0 /\ Len(warnings) = 0, errors |-> errors,
     warnings |-> warnings, stats |-> stats]

\* The returned object.
verdict(errors, warnings, stats) ==
    [valid |-> Len(errors) = 0, errors |-> errors, warnings |-> warnings, stats |-> stats]

validateScrapedData(skills, options) ==
    LET minSkillCount == option(options, "minSkillCount", 1000)
        minSourceCount == option(options, "minSourceCount", 100)
        maxDropPercentage == option(options, "maxDropPercentage", 50)
        \* undefined and null are both falsy at the use of previousData
        previousData == option(options, "previousData", Null)
        n == Len(skills)
        sources == {field(skills[k], "source") : k \in 1..n}
        owners == {field(skills[k], "owner") : k \in 1..n}
        totalInstalls == SumSeq([k \in 1..n |-> skills[k].installs])
        stats == [skillCount |-> n,
                  sourceCount |-> Cardinality(sources),
                  ownerCount |-> Cardinality(owners),
                  \* Math.round(totalInstalls / n)
                  avgInstalls |-> IF n > 0 THEN (2 * totalInstalls + n) \div (2 * n) ELSE 0]
        hasPrev == previousData # Null /\ Len(previousData.skills) > 0
        p == IF hasPrev THEN Len(previousData.skills) ELSE 1
        drop == IF hasPrev THEN dropCheck(p, n, maxDropPercentage)
                ELSE [errors |-> <<>>, warnings |-> <<>>]
        prevTotalInstalls ==
            IF hasPrev
            THEN SumSeq([k \in 1..p |-> previousData.skills[k].installs])
            ELSE 0
        errors == floorErrors(n, Cardinality(sources), minSkillCount, minSourceCount)
                  \o emptyError(n) \o sampleError(skills) \o drop.errors
        warnings == drop.warnings
                    \o (IF hasPrev THEN installsWarning(totalInstalls, prevTotalInstalls)
                        ELSE <<>>)
                    \o namesWarning(skills)
    IN  verdict(errors, warnings, stats)

\* filterRepoSkills that treats an empty directory set like a failed fetch.
filterRepoSkills_EmptyKeeps(source, repoSkills, actualDirs) ==
    IF Cardinality(actualDirs) = 0 \/ Cardinality(actualDirs) >= Len(repoSkills)
    THEN [keptSkills |-> repoSkills, droppedSkills |-> <<>>]
    ELSE LET isMatch(s) == s.skillId \in actualDirs \/ s.name \in actualDirs
             matched == FilterSeq(repoSkills, {s \in Range(repoSkills) : isMatch(s)})
             unmatched == FilterSeq(repoSkills, {s \in Range(repoSkills) : ~isMatch(s)})
         IN  [keptSkills |-> matched,
              droppedSkills |-> [k \in 1..Len(unmatched) |->
                  [skillId |-> unmatched[k].skillId, source |-> unmatched[k].source]]]

\* filterRepoSkills without the shortcut for |actualDirs| >= |repoSkills|.
filterRepoSkills_AlwaysMatch(source, repoSkills, actualDirs) ==
    IF Cardinality(actualDirs) = 0
    THEN [keptSkills |-> <<>>,
          droppedSkills |-> [k \in 1..Len(repoSkills) |->
              [skillId |-> repoSkills[k].skillId, source |-> repoSkills[k].source]]]
    ELSE LET isMatch(s) == s.skillId \in actualDirs \/ s.name \in actualDirs
             matched == FilterSeq(repoSkills, {s \in Range(repoSkills) : isMatch(s)})
             unmatched == FilterSeq(repoSkills, {s \in Range(repoSkills) : ~isMatch(s)})
         IN  [keptSkills |-> matched,
              droppedSkills |-> [k \in 1..Len(unmatched) |->
                  [skillId |-> unmatched[k].skillId, source |-> unmatched[k].source]]]

\* filterRepoSkills that matches directories against skillId only.
filterRepoSkills_IdOnly(source, repoSkills, actualDirs) ==
    IF Cardinality(actualDirs) = 0
    THEN [keptSkills |-> <<>>,
          droppedSkills |-> [k \in 1..Len(repoSkills) |->
              [skillId |-> repoSkills[k].skillId, source |-> repoSkills[k].source]]]
    ELSE IF Cardinality(actualDirs) >= Len(repoSkills)
    THEN [keptSkills |-> repoSkills, droppedSkills |-> <<>>]
    ELSE LET isMatch(s) == s.skillId \in actualDirs
             matched == FilterSeq(repoSkills, {s \in Range(repoSkills) : isMatch(s)})
             unmatched == FilterSeq(repoSkills, {s \in Range(repoSkills) : ~isMatch(s)})
         IN  [keptSkills |-> matched,
              droppedSkills |-> [k \in 1..Len(unmatched) |->
                  [skillId |-> unmatched[k].skillId, source |-> unmatched[k].source]]]

\* Filter skills for a single repo given its actual directory set.
\* The per-repository filter that drops the unmatched skills without
\* reporting them.
filterRepoSkills_Unreported(source, repoSkills, actualDirs) ==
    IF Cardinality(actualDirs) = 0
    THEN [keptSkills |-> <<>>,
          droppedSkills |-> [k \in 1..Len(repoSkills) |->
              [skillId |-> repoSkills[k].skillId, source |-> repoSkills[k].source]]]
    ELSE IF Cardinality(actualDirs) >= Len(repoSkills)
    THEN [keptSkills |-> repoSkills, droppedSkills |-> <<>>]
    ELSE LET isMatch(s) == s.skillId \in actualDirs \/ s.name \in actualDirs
             matched == FilterSeq(repoSkills, {s \in Range(repoSkills) : isMatch(s)})
             unmatched == FilterSeq(repoSkills, {s \in Range(repoSkills) : ~isMatch(s)})
         IN  [keptSkills |-> matched, droppedSkills |-> SubSeq(unmatched, 1, 0)]

filterRepoSkills(source, repoSkills, actualDirs) ==
    IF Cardinality(actualDirs) = 0
    THEN [keptSkills |-> <<>>,
          droppedSkills |-> [k \in 1..Len(repoSkills) |->
              [skillId |-> repoSkills[k].skillId, source |-> repoSkills[k].source]]]
    ELSE IF Cardinality(actualDirs) >= Len(repoSkills)
    THEN [keptSkills |-> repoSkills, droppedSkills |-> <<>>]
    ELSE LET isMatch(s) == s.skillId \in actualDirs \/ s.name \in actualDirs
             matched == FilterSeq(repoSkills, {s \in Range(repoSkills) : isMatch(s)})
             unmatched == FilterSeq(repoSkills, {s \in Range(repoSkills) : ~isMatch(s)})
         IN  [keptSkills |-> matched,
              droppedSkills |-> [k \in 1..Len(unmatched) |->
                  [skillId |-> unmatched[k].skillId, source |-> unmatched[k].source]]]

\* ------------------------------------------------------------ model inputs

SrcA == <<"a", "/", "x">>

SrcB == <<"b", "/", "y">>

RawSkill(source, skillId, name, installs) ==
    [source |-> source, skillId |-> skillId, name |-> name, installs |-> installs]

skA == RawSkill(SrcA, <<"a">>, <<"a">>, 40)

skB == RawSkill(SrcA, <<"b">>, <<"b">>, 30)

skC == RawSkill(SrcA, <<"c">>, <<"c", "-", "d">>, 20)

skD == RawSkill(SrcB, <<"d">>, <<"d">>, 10)

\* What scrapeSkills can resolve to: a list parsed from the page ...
ScrapeResults == { <<>>, <<skA, skB, skC, skD>> }

\* ... or an exception (match failure, network failure).
ScrapeErrors == { "Could not find allTimeSkills in page" }

\* What fetchSkillDirs can resolve to for a repository whose tree was fetched.
DirChoices == { {}, {<<"a">>, <<"c">>} }

FetchFailed == [ok |-> FALSE]

FetchOk(dirs) == [ok |-> TRUE, dirs |-> dirs]

\* Interval arguments of startRefreshScheduler (milliseconds).
IntervalChoices == { 30 * 60 * 1000 }

StartMs == 3 * TickMs

Snapshot(at, raw) ==
    [scrapedAt |-> toISOString(at),
     totalSkills |-> Len(raw),
     totalSources |-> Cardinality(getUniqueSources(raw)),
     totalOwners |-> Cardinality(getUniqueOwners(raw)),
     skills |-> enrichSkills(raw)]

\* Snapshots that storage can hold before the first refresh of a behaviour.
BundledSnap == Snapshot(0, <<skA, skB, skC, skD>>)

FsSnap == Snapshot(TickMs, <<skA, skB, skC, skD>>)

S3Snap == Snapshot(2 * TickMs, <<skA, skB, skD>>)

EmptyCache == [s \in {} |-> Null]

\* ------------------------------------------------------------------- state

VARIABLES
    env,               \* process.env: S3_BUCKET, SKILLS_DATA_DIR, GITHUB_TOKEN set or not
    now,               \* Date.now()
    ticks,             \* how often the clock has advanced
    s3Data,            \* remote store: the snapshot object, or NoData
    s3Cache,           \* remote store: the verification cache document
    fsData,            \* SKILLS_DATA_DIR/skills-data.json, or NoData
    bundledData,       \* registry/scraped-skills.json: a snapshot, NoData or Corrupt
    pendingPuts,       \* remote-store writes started and not awaited
    cachedData,        \* registry/data.ts: cachedData
    cachedSources,     \* registry/data.ts: cachedSources, Null or the cached list
    cachedOwners,      \* registry/data.ts: cachedOwners, Null or the cached list
    cachedTopSkills,   \* registry/data.ts: cachedTopSkills, limit -> cached list
    isRefreshing,      \* scheduler/index.ts
    lastRefreshResult, \* scheduler/index.ts
    refreshTimer,      \* scheduler/index.ts: Null or the handle of the timer
    timers,            \* the runtime's active interval timers
    calls,             \* the invocations of refreshSkillsData: position and locals
    nextId,            \* the next invocation
    effects,           \* history: what each invocation wrote
    faults,            \* how many I/O failures have happened
    verified,          \* history: per source, the time of its last successful tree fetch
    probe              \* a direct call of an exported pure function: arguments and answer

vars == <<env, now, ticks, s3Data, s3Cache, fsData, bundledData, pendingPuts,
          cachedData, cachedSources, cachedOwners, cachedTopSkills, isRefreshing,
          lastRefreshResult, refreshTimer, timers, calls, nextId, effects, faults,
          verified, probe>>

\* registry/data.ts: the three memoised aggregations.
aggregationCaches == <<cachedSources, cachedOwners, cachedTopSkills>>

\* new Map(): no limit has a cached list.
EmptyTopSkills == [limit \in {} |-> Null]

\* The aggregation caches after clearAggregationCaches().
clearAggregationCaches == [sources |-> Null, owners |-> Null, top |-> EmptyTopSkills]

storageVars == <<s3Data, s3Cache, fsData, bundledData, pendingPuts>>

Ids == 1..MaxInvocations

isS3Configured == env.S3_BUCKET

getLocalDataDir == env.SKILLS_DATA_DIR

getActiveStorageType ==
    IF isS3Configured THEN "s3" ELSE IF getLocalDataDir THEN "filesystem" ELSE "bundled"

NewCall ==
    [pc |-> "new", overlapped |-> FALSE,
     startTime |-> 0, previousData |-> Null, scrapedSkills |-> <<>>, enriched |-> <<>>,
     cacheRead |-> FALSE, cache0 |-> EmptyCache, cache |-> EmptyCache, filterNow |-> 0,
     reposToCheck |-> <<>>, batchStart |-> 0, inflight |-> {}, batchResults |-> EmptyCache,
     fetched |-> EmptyCache, kept |-> <<>>, removedSkills |-> <<>>,
     reposChecked |-> 0, reposSkipped |-> 0,
     staleResult |-> Null, validation |-> Null, output |-> Null, savedTo |-> Null,
     result |-> Null]

\* The locals of a returned invocation are dropped when a later run is admitted.
Retired == [NewCall EXCEPT !.pc = "retired"]

\* Positions of an invocation that has entered Running and has not returned.
RunningPcs == {"scrape", "cacheLoad", "fetch", "saveS3", "reloadS3"}

\* What initializeData() leaves in the registry at startup: the data of the
\* first source in priority order, or nothing when the load threw.
InitialRegistry(s3, fs, bundled) ==
    IF s3 # NoData THEN s3
    ELSE IF fs # NoData THEN fs
    ELSE IF bundled = Corrupt THEN Null
    ELSE bundled

\* The state after startup under the environments `envs`.
InitWithCache(envs, caches) ==
    /\ env \in envs
    /\ now = StartMs
    /\ ticks = 0
    /\ s3Data \in (IF env.S3_BUCKET THEN {NoData, S3Snap} ELSE {NoData})
    /\ s3Cache \in caches
    /\ fsData \in (IF env.SKILLS_DATA_DIR THEN {NoData, FsSnap} ELSE {NoData})
    /\ bundledData \in (IF fsData = NoData THEN {BundledSnap, Corrupt} ELSE {BundledSnap})
    /\ pendingPuts = {}
    /\ cachedData = InitialRegistry(s3Data, fsData, bundledData)
    /\ cachedSources = Null
    /\ cachedOwners = Null
    /\ cachedTopSkills = EmptyTopSkills
    /\ isRefreshing = FALSE
    /\ lastRefreshResult = Null
    /\ refreshTimer = Null
    /\ timers = {}
    /\ calls = [i \in Ids |-> NewCall]
    /\ nextId = 1
    /\ effects = [i \in Ids |-> {}]
    /\ faults = 0
    /\ verified = EmptyCache

Envs == [S3_BUCKET : BOOLEAN, SKILLS_DATA_DIR : BOOLEAN, GITHUB_TOKEN : BOOLEAN]

\* The state after startup with no verification cache stored yet.
InitWith(envs) == InitWithCache(envs, {EmptyCache})

Init == InitWith(Envs) /\ probe = Null

\* ------------------------------------------------------- storage/index.ts

\* The slice of the state one invocation reads and writes between two awaits.
Ctx(i) ==
    [call |-> calls[i], puts |-> pendingPuts, eff |-> effects[i],
     s3 |-> s3Data, s3cache |-> s3Cache, fs |-> fsData, bundled |-> bundledData,
     reg |-> cachedData, last |-> lastRefreshResult, refreshing |-> isRefreshing,
     agg |-> [sources |-> cachedSources, owners |-> cachedOwners,
              top |-> cachedTopSkills],
     faults |-> faults]

Apply(i, x) ==
    /\ calls' = [calls EXCEPT ![i] = x.call]
    /\ pendingPuts' = x.puts
    /\ effects' = [effects EXCEPT ![i] = x.eff]
    /\ s3Data' = x.s3
    /\ s3Cache' = x.s3cache
    /\ fsData' = x.fs
    /\ bundledData' = x.bundled
    /\ cachedData' = x.reg
    /\ cachedSources' = x.agg.sources
    /\ cachedOwners' = x.agg.owners
    /\ cachedTopSkills' = x.agg.top
    /\ lastRefreshResult' = x.last
    /\ isRefreshing' = x.refreshing
    /\ faults' = x.faults

EmptyDataset(at) ==
    [scrapedAt |-> toISOString(at), totalSkills |-> 0, totalSources |-> 0,
     totalOwners |-> 0, skills |-> <<>>]

\* JSON.parse of a damaged bundled file throws.
loadFromBundledThrows(bundled) == bundled = Corrupt

loadFromBundled(bundled) == IF bundled = NoData THEN EmptyDataset(now) ELSE bundled

\* loadFromFilesystem(): null when the file is absent or does not parse.
loadFromFilesystem(fs) == IF fs = Corrupt THEN NoData ELSE fs

\* What loadFromS3() answers when the read itself succeeds: null when the
\* object is absent, empty or does not parse.
loadFromS3(s3) == IF s3 = Corrupt THEN NoData ELSE s3

\* Synchronous load: filesystem, then bundled.  [threw, data]
loadSkillsData(fs, bundled) ==
    IF loadFromFilesystem(fs) # NoData THEN [threw |-> FALSE, data |-> fs]
    ELSE IF loadFromBundledThrows(bundled) THEN [threw |-> TRUE, data |-> NoData]
    ELSE [threw |-> FALSE, data |-> loadFromBundled(bundled)]

SeedPut(i, data) == [kind |-> "seed", payload |-> data, by |-> i]

\* loadSkillsDataAsync that tries the local file before the remote answer.
loadSkillsDataAsync_LocalFirst(i, x, got) ==
    IF loadFromFilesystem(x.fs) # NoData
    THEN [threw |-> FALSE, data |-> x.fs,
          puts |-> IF isS3Configured /\ got = NoData
                   THEN x.puts \cup {SeedPut(i, x.fs)} ELSE x.puts]
    ELSE IF got # NoData THEN [threw |-> FALSE, data |-> got, puts |-> x.puts]
    ELSE IF loadFromBundledThrows(x.bundled)
    THEN [threw |-> TRUE, data |-> NoData, puts |-> x.puts]
    ELSE [threw |-> FALSE, data |-> loadFromBundled(x.bundled),
          puts |-> IF isS3Configured
                   THEN x.puts \cup {SeedPut(i, loadFromBundled(x.bundled))}
                   ELSE x.puts]

\* loadSkillsDataAsync after loadFromS3 has answered `got` (NoData: the store is
\* not configured, holds nothing, or the read failed).  [threw, data, puts]
loadSkillsDataAsync(i, x, got) ==
    IF got # NoData THEN [threw |-> FALSE, data |-> got, puts |-> x.puts]
    ELSE IF loadFromFilesystem(x.fs) # NoData
    THEN [threw |-> FALSE, data |-> x.fs,
          puts |-> IF isS3Configured THEN x.puts \cup {SeedPut(i, x.fs)} ELSE x.puts]
    ELSE IF loadFromBundledThrows(x.bundled)
    THEN [threw |-> TRUE, data |-> NoData, puts |-> x.puts]
    ELSE [threw |-> FALSE, data |-> loadFromBundled(x.bundled),
          puts |-> IF isS3Configured
                   THEN x.puts \cup {SeedPut(i, loadFromBundled(x.bundled))}
                   ELSE x.puts]

\* The filesystem half of saveSkillsDataAsync; `ok` is whether the write succeeds.
saveLocal(x, data, ok) ==
    IF getLocalDataDir
    THEN [x EXCEPT !.fs = IF ok THEN data ELSE @,
                   !.eff = IF ok THEN @ \cup {"saveToFilesystem"} ELSE @]
    ELSE [x EXCEPT !.bundled = IF ok THEN data ELSE @,
                   !.eff = IF ok THEN @ \cup {"saveToBundled"} ELSE @]

\* ---------------------------------------------------- scheduler/index.ts

\* Thrown without the finally block: the flag stays set.
Thrown_NoFinally(x, message) ==
    LET result == [success |-> FALSE, timestamp |-> toISOString(now),
                   error |-> <<message>>, durationMs |-> now - x.call.startTime]
    IN  [x EXCEPT !.call.pc = "done", !.call.result = result, !.last = result]

\* Thrown without the assignment to lastRefreshResult.
Thrown_KeepLast(x, message) ==
    LET result == [success |-> FALSE, timestamp |-> toISOString(now),
                   error |-> <<message>>, durationMs |-> now - x.call.startTime]
    IN  [x EXCEPT !.call.pc = "done", !.call.result = result, !.refreshing = FALSE]

\* A return statement inside the try block without the finally: the flag stays set.
Returned_NoFinally(x, result) ==
    [x EXCEPT !.call.pc = "done", !.call.result = result, !.last = result]

\* A return statement of refreshSkillsData inside the try block, and the finally.
Returned(x, result) ==
    [x EXCEPT !.call.pc = "done", !.call.result = result, !.last = result,
              !.refreshing = FALSE]

\* The catch block of refreshSkillsData, and the finally.
Thrown(x, message) ==
    LET result == [success |-> FALSE, timestamp |-> toISOString(now),
                   error |-> <<message>>, durationMs |-> now - x.call.startTime]
    IN  [x EXCEPT !.call.pc = "done", !.call.result = result, !.last = result,
                  !.refreshing = FALSE]

\* reloadDataAsync that swaps the snapshot and leaves the aggregation caches.
ReloadAndReturn_NoClear(i, x, got) ==
    LET r == loadSkillsDataAsync(i, x, got)
        c == x.call
        result == [success |-> TRUE, timestamp |-> c.output.scrapedAt,
                   skillCount |-> c.output.totalSkills,
                   sourceCount |-> c.output.totalSources,
                   ownerCount |-> c.output.totalOwners,
                   durationMs |-> now - c.startTime,
                   storageType |-> getActiveStorageType,
                   savedTo |-> c.savedTo, validation |-> c.validation]
    IN  IF r.threw
        THEN Thrown(x, "Unexpected token in JSON")
        ELSE Returned([x EXCEPT !.reg = r.data,
                                !.puts = r.puts, !.eff = @ \cup {"reload"}], result)

\* reloadDataAsync once loadFromS3 has answered, and the rest of the try block.
ReloadAndReturn(i, x, got) ==
    LET r == loadSkillsDataAsync(i, x, got)
        c == x.call
        result == [success |-> TRUE, timestamp |-> c.output.scrapedAt,
                   skillCount |-> c.output.totalSkills,
                   sourceCount |-> c.output.totalSources,
                   ownerCount |-> c.output.totalOwners,
                   durationMs |-> now - c.startTime,
                   storageType |-> getActiveStorageType,
                   savedTo |-> c.savedTo, validation |-> c.validation]
    IN  IF r.threw
        THEN Thrown(x, "Unexpected token in JSON")
        ELSE Returned([x EXCEPT !.reg = r.data, !.agg = clearAggregationCaches,
                                !.puts = r.puts, !.eff = @ \cup {"reload"}], result)

\* saveSkillsDataAsync after the remote write answered `s3ok`, then reloadDataAsync
\* up to its first await.
SaveLocalAndReload(i, x, s3ok) ==
    { LET x1 == [saveLocal(x, x.call.output, ok) EXCEPT
                    !.call.savedTo = [s3 |-> s3ok, filesystem |-> ok],
                    !.faults = IF ok THEN @ ELSE @ + 1]
      IN  IF isS3Configured
          THEN [x1 EXCEPT !.call.pc = "reloadS3"]
          ELSE ReloadAndReturn(i, x1, NoData)
      : ok \in {b \in BOOLEAN : b \/ x.faults < MaxFaults} }

\* AfterFilter without the validation gate: an invalid candidate is saved too.
AfterFilter_NoGate(i, x) ==
    LET c == x.call
        enriched == IF ~c.staleResult.skipped THEN c.staleResult.filtered ELSE c.enriched
        validation == validateScrapedData(enriched,
            [minSkillCount |-> RefreshMinSkillCount,
             minSourceCount |-> RefreshMinSourceCount,
             maxDropPercentage |-> RefreshMaxDropPercentage,
             previousData |-> c.previousData])
        output == [scrapedAt |-> toISOString(now),
                   totalSkills |-> Len(enriched),
                   totalSources |-> Cardinality(getUniqueSources(c.scrapedSkills)),
                   totalOwners |-> Cardinality(getUniqueOwners(c.scrapedSkills)),
                   skills |-> enriched]
        x2 == [x EXCEPT !.call.enriched = enriched, !.call.validation = validation,
                        !.call.output = output]
    IN  IF isS3Configured THEN { [x2 EXCEPT !.call.pc = "saveS3"] }
        ELSE SaveLocalAndReload(i, x2, FALSE)

\* AfterFilter with the file written before the validation gate is consulted.
AfterFilter_SaveFirst(i, x) ==
    LET c == x.call
        enriched == IF ~c.staleResult.skipped THEN c.staleResult.filtered ELSE c.enriched
        validation == validateScrapedData(enriched,
            [minSkillCount |-> RefreshMinSkillCount,
             minSourceCount |-> RefreshMinSourceCount,
             maxDropPercentage |-> RefreshMaxDropPercentage,
             previousData |-> c.previousData])
        output == [scrapedAt |-> toISOString(now),
                   totalSkills |-> Len(enriched),
                   totalSources |-> Cardinality(getUniqueSources(c.scrapedSkills)),
                   totalOwners |-> Cardinality(getUniqueOwners(c.scrapedSkills)),
                   skills |-> enriched]
        x1 == [saveLocal(x, output, TRUE) EXCEPT
                  !.call.enriched = enriched, !.call.validation = validation]
        rejected == [success |-> FALSE, timestamp |-> toISOString(now),
                     error |-> <<"Validation failed: ">> \o join(validation.errors, <<"; ">>),
                     durationMs |-> now - c.startTime,
                     storageType |-> getActiveStorageType,
                     validation |-> validation, skipped |-> TRUE,
                     skillCount |-> Len(enriched),
                     sourceCount |-> Cardinality(getUniqueSources(c.scrapedSkills))]
        x2 == [x1 EXCEPT !.call.output = output]
    IN  IF ~validation.valid THEN { Returned(x1, rejected) }
        ELSE IF isS3Configured THEN { [x2 EXCEPT !.call.pc = "saveS3"] }
        ELSE SaveLocalAndReload(i, x2, FALSE)

\* refreshSkillsData from the answer of filterStaleSkills to the next await.
AfterFilter(i, x) ==
    LET c == x.call
        enriched == IF ~c.staleResult.skipped THEN c.staleResult.filtered ELSE c.enriched
        validation == validateScrapedData(enriched,
            [minSkillCount |-> RefreshMinSkillCount,
             minSourceCount |-> RefreshMinSourceCount,
             maxDropPercentage |-> RefreshMaxDropPercentage,
             previousData |-> c.previousData])
        x1 == [x EXCEPT !.call.enriched = enriched, !.call.validation = validation]
        rejected == [success |-> FALSE, timestamp |-> toISOString(now),
                     error |-> <<"Validation failed: ">> \o join(validation.errors, <<"; ">>),
                     durationMs |-> now - c.startTime,
                     storageType |-> getActiveStorageType,
                     validation |-> validation, skipped |-> TRUE,
                     skillCount |-> Len(enriched),
                     sourceCount |-> Cardinality(getUniqueSources(c.scrapedSkills))]
        output == [scrapedAt |-> toISOString(now),
                   totalSkills |-> Len(enriched),
                   totalSources |-> Cardinality(getUniqueSources(c.scrapedSkills)),
                   totalOwners |-> Cardinality(getUniqueOwners(c.scrapedSkills)),
                   skills |-> enriched]
        x2 == [x1 EXCEPT !.call.output = output]
    IN  IF ~validation.valid THEN { Returned(x1, rejected) }
        ELSE IF isS3Configured THEN { [x2 EXCEPT !.call.pc = "saveS3"] }
        ELSE SaveLocalAndReload(i, x2, FALSE)

\* ------------------------------------------- validate.ts: filterStaleSkills

\* Keys of a Map in insertion order: the sources in order of first occurrence.
RECURSIVE mapKeys(_, _)
mapKeys(skills, seen) ==
    IF skills = <<>> THEN <<>>
    ELSE IF Head(skills).source \in seen THEN mapKeys(Tail(skills), seen)
    ELSE <<Head(skills).source>> \o mapKeys(Tail(skills), seen \cup {Head(skills).source})

byRepo(skills, source) == FilterSeq(skills, {s \in Range(skills) : s.source = source})

isFresh(cache, source, at) ==
    /\ source \in DOMAIN cache
    /\ at - getTime(cache[source].validatedAt) < VALIDATION_TTL_MS

cachePut(cache, source, entry) ==
    [s \in DOMAIN cache \cup {source} |-> IF s = source THEN entry ELSE cache[s]]

CachePut(i, cache) == [kind |-> "cache", payload |-> cache, by |-> i]

skippedResult(skills) ==
    [filtered |-> skills, removed |-> 0, removedSkills |-> <<>>, reposChecked |-> 0,
     skipped |-> TRUE]

\* From the end of the batch loop to the return: the fire-and-forget cache save
\* and the result.
FinishFilter(i, x) ==
    LET c == x.call
        staleResult == [filtered |-> c.kept, removed |-> Len(c.removedSkills),
                        removedSkills |-> c.removedSkills,
                        reposChecked |-> c.reposChecked, skipped |-> FALSE]
    IN  AfterFilter(i, [x EXCEPT
            !.call.staleResult = staleResult,
            !.puts = IF isS3Configured THEN @ \cup {CachePut(i, c.cache)} ELSE @])

\* LaunchOrFinish that starts the fetches of every remaining repository at once.
LaunchOrFinish_AllAtOnce(i, x) ==
    LET c == x.call
        rest == SubSeq(c.reposToCheck, c.batchStart + 1, Len(c.reposToCheck))
    IN  IF c.batchStart >= Len(c.reposToCheck) THEN FinishFilter(i, x)
        ELSE { [x EXCEPT !.call.pc = "fetch", !.call.inflight = Range(rest),
                         !.call.batchResults = EmptyCache] }

\* One turn of the batch loop: start the fetches of the next batch, or leave it.
LaunchOrFinish(i, x) ==
    LET c == x.call
        last == Min(c.batchStart + BATCH_SIZE, Len(c.reposToCheck))
        batch == SubSeq(c.reposToCheck, c.batchStart + 1, last)
    IN  IF c.batchStart >= Len(c.reposToCheck) THEN FinishFilter(i, x)
        ELSE { [x EXCEPT !.call.pc = "fetch", !.call.inflight = Range(batch),
                         !.call.batchResults = EmptyCache] }

\* From the loaded cache to the first batch: group by repository, split into
\* cached and to-check, apply the cached directory sets.
\* The split that first prunes the cache to the sources of the current list.
GroupAndSplit_PruneAbsent(i, x, cache, cacheRead) ==
    LET c == x.call
        skills == c.enriched
        keys == mapKeys(skills, {})
        cachedRepos == FilterSeq(keys, {k \in Range(keys) : isFresh(cache, k, now)})
        reposToCheck == FilterSeq(keys, {k \in Range(keys) : ~isFresh(cache, k, now)})
        res(k) == filterRepoSkills(cachedRepos[k], byRepo(skills, cachedRepos[k]),
                                   cache[cachedRepos[k]].dirs)
    IN  LaunchOrFinish(i, [x EXCEPT
            !.call.cacheRead = cacheRead, !.call.cache0 = cache,
            !.call.cache = [k \in DOMAIN cache \cap Range(keys) |-> cache[k]],
            !.call.filterNow = now, !.call.reposToCheck = reposToCheck,
            !.call.batchStart = 0,
            !.call.kept = Flatten([k \in 1..Len(cachedRepos) |-> res(k).keptSkills]),
            !.call.removedSkills =
                Flatten([k \in 1..Len(cachedRepos) |-> res(k).droppedSkills])])

GroupAndSplit(i, x, cache, cacheRead) ==
    LET c == x.call
        skills == c.enriched
        keys == mapKeys(skills, {})
        cachedRepos == FilterSeq(keys, {k \in Range(keys) : isFresh(cache, k, now)})
        reposToCheck == FilterSeq(keys, {k \in Range(keys) : ~isFresh(cache, k, now)})
        res(k) == filterRepoSkills(cachedRepos[k], byRepo(skills, cachedRepos[k]),
                                   cache[cachedRepos[k]].dirs)
    IN  LaunchOrFinish(i, [x EXCEPT
            !.call.cacheRead = cacheRead, !.call.cache0 = cache, !.call.cache = cache,
            !.call.filterNow = now, !.call.reposToCheck = reposToCheck,
            !.call.batchStart = 0,
            !.call.kept = Flatten([k \in 1..Len(cachedRepos) |-> res(k).keptSkills]),
            !.call.removedSkills =
                Flatten([k \in 1..Len(cachedRepos) |-> res(k).droppedSkills])])

\* filterStaleSkills without the credential check.
filterStaleSkills_NoTokenCheck(i, x) ==
    IF isS3Configured THEN { [x EXCEPT !.call.pc = "cacheLoad"] }
    ELSE GroupAndSplit(i, x, EmptyCache, FALSE)

\* filterStaleSkills up to its first await.
filterStaleSkills(i, x) ==
    IF ~env.GITHUB_TOKEN
    THEN AfterFilter(i, [x EXCEPT !.call.staleResult = skippedResult(x.call.enriched)])
    ELSE IF isS3Configured THEN { [x EXCEPT !.call.pc = "cacheLoad"] }
    ELSE GroupAndSplit(i, x, EmptyCache, FALSE)

\* fetchSettled that reads a failed fetch as "the repository has no skills".
fetchSettled_NullAsEmpty(i, x, source, outcome) ==
    LET c == x.call
        repoSkills == byRepo(c.enriched, source)
        dirs == IF outcome.ok THEN outcome.dirs ELSE {}
        fr == filterRepoSkills(source, repoSkills, dirs)
        results == cachePut(c.batchResults, source, fr)
        c1 == [c EXCEPT
                 !.inflight = @ \ {source},
                 !.fetched = cachePut(@, source, outcome),
                 !.batchResults = results,
                 !.reposChecked = @ + 1,
                 !.cache = cachePut(@, source, [validatedAt |-> toISOString(now),
                                                dirs |-> dirs])]
        last == Min(c.batchStart + BATCH_SIZE, Len(c.reposToCheck))
        batch == SubSeq(c.reposToCheck, c.batchStart + 1, last)
        c2 == [c1 EXCEPT
                 !.kept = @ \o Flatten([k \in 1..Len(batch) |-> results[batch[k]].keptSkills]),
                 !.removedSkills =
                     @ \o Flatten([k \in 1..Len(batch) |-> results[batch[k]].droppedSkills]),
                 !.batchStart = @ + BATCH_SIZE]
    IN  IF c1.inflight # {} THEN { [x EXCEPT !.call = c1] }
        ELSE LaunchOrFinish(i, [x EXCEPT !.call = c2])

\* fetchSettled that updates the cache entry only when a skill was dropped.
fetchSettled_CacheOnDrop(i, x, source, outcome) ==
    LET c == x.call
        repoSkills == byRepo(c.enriched, source)
        fr == IF outcome.ok THEN filterRepoSkills(source, repoSkills, outcome.dirs)
              ELSE [keptSkills |-> repoSkills, droppedSkills |-> <<>>]
        results == cachePut(c.batchResults, source, fr)
        c1 == [c EXCEPT
                 !.inflight = @ \ {source},
                 !.fetched = cachePut(@, source, outcome),
                 !.batchResults = results,
                 !.reposChecked = IF outcome.ok THEN @ + 1 ELSE @,
                 !.reposSkipped = IF outcome.ok THEN @ ELSE @ + 1,
                 !.cache = IF outcome.ok /\ fr.droppedSkills # <<>>
                           THEN cachePut(@, source, [validatedAt |-> toISOString(now),
                                                     dirs |-> outcome.dirs])
                           ELSE @]
        last == Min(c.batchStart + BATCH_SIZE, Len(c.reposToCheck))
        batch == SubSeq(c.reposToCheck, c.batchStart + 1, last)
        c2 == [c1 EXCEPT
                 !.kept = @ \o Flatten([k \in 1..Len(batch) |-> results[batch[k]].keptSkills]),
                 !.removedSkills =
                     @ \o Flatten([k \in 1..Len(batch) |-> results[batch[k]].droppedSkills]),
                 !.batchStart = @ + BATCH_SIZE]
    IN  IF c1.inflight # {} THEN { [x EXCEPT !.call = c1] }
        ELSE LaunchOrFinish(i, [x EXCEPT !.call = c2])

\* One fetchSkillDirs promise of the current batch settles with `outcome`; the
\* last one of the batch also runs the continuation of Promise.all.
fetchSettled(i, x, source, outcome) ==
    LET c == x.call
        repoSkills == byRepo(c.enriched, source)
        fr == IF outcome.ok THEN filterRepoSkills(source, repoSkills, outcome.dirs)
              ELSE [keptSkills |-> repoSkills, droppedSkills |-> <<>>]
        results == cachePut(c.batchResults, source, fr)
        c1 == [c EXCEPT
                 !.inflight = @ \ {source},
                 !.fetched = cachePut(@, source, outcome),
                 !.batchResults = results,
                 !.reposChecked = IF outcome.ok THEN @ + 1 ELSE @,
                 !.reposSkipped = IF outcome.ok THEN @ ELSE @ + 1,
                 !.cache = IF outcome.ok
                           THEN cachePut(@, source, [validatedAt |-> toISOString(now),
                                                     dirs |-> outcome.dirs])
                           ELSE @]
        last == Min(c.batchStart + BATCH_SIZE, Len(c.reposToCheck))
        batch == SubSeq(c.reposToCheck, c.batchStart + 1, last)
        c2 == [c1 EXCEPT
                 !.kept = @ \o Flatten([k \in 1..Len(batch) |-> results[batch[k]].keptSkills]),
                 !.removedSkills =
                     @ \o Flatten([k \in 1..Len(batch) |-> results[batch[k]].droppedSkills]),
                 !.batchStart = @ + BATCH_SIZE]
    IN  IF c1.inflight # {} THEN { [x EXCEPT !.call = c1] }
        ELSE LaunchOrFinish(i, [x EXCEPT !.call = c2])

FetchOutcomes == {FetchFailed} \cup {FetchOk(d) : d \in DirChoices}

\* ----------------------------------------------------------------- actions

ConflictResult ==
    [success |-> FALSE, timestamp |-> toISOString(now),
     error |-> <<"Refresh already in progress">>]

\* refreshSkillsData without the entry guard.
refreshSkillsData_NoGuard(i) ==
    LET prev == loadSkillsData(fsData, bundledData)
    IN  /\ i = nextId
        /\ nextId' = nextId + 1
        /\ isRefreshing' = TRUE
        /\ calls' = [calls EXCEPT ![i] =
                [@ EXCEPT !.pc = "scrape",
                          !.overlapped = \E j \in Ids : calls[j].pc \in RunningPcs,
                          !.startTime = now,
                          !.previousData = IF prev.threw THEN Null ELSE prev.data]]
        /\ UNCHANGED <<lastRefreshResult, storageVars, cachedData, aggregationCaches, effects, faults>>

\* refreshSkillsData that records the refusal of an overlapping call as the
\* last result.
refreshSkillsData_ConflictRecorded(i) ==
    LET prev == loadSkillsData(fsData, bundledData)
        overlap == \E j \in Ids : calls[j].pc \in RunningPcs
    IN  /\ i = nextId
        /\ nextId' = nextId + 1
        /\ IF isRefreshing
           THEN /\ calls' = [calls EXCEPT ![i] =
                        [@ EXCEPT !.pc = "done", !.overlapped = overlap,
                                  !.result = ConflictResult]]
                /\ UNCHANGED isRefreshing
                /\ lastRefreshResult' = ConflictResult
                /\ UNCHANGED effects
           ELSE /\ isRefreshing' = TRUE
                /\ UNCHANGED lastRefreshResult
                /\ calls' = [j \in Ids |->
                        IF j = i
                        THEN [calls[j] EXCEPT !.pc = "scrape", !.overlapped = overlap,
                                  !.startTime = now,
                                  !.previousData =
                                      IF prev.threw THEN Null ELSE prev.data]
                        ELSE IF calls[j].pc = "done" THEN Retired
                        ELSE calls[j]]
                /\ effects' = [j \in Ids |->
                        IF calls[j].pc = "done" THEN {} ELSE effects[j]]
        /\ UNCHANGED <<storageVars, cachedData, aggregationCaches, faults>>

\* refreshSkillsData up to its first await (the scrape).
\* The orchestrator with the load of the previous snapshot outside any try: a
\* throwing load ends the run at once.
refreshSkillsData_FatalLoad(i) ==
    LET prev == loadSkillsData(fsData, bundledData)
        overlap == \E j \in Ids : calls[j].pc \in RunningPcs
    IN  /\ i = nextId
        /\ nextId' = nextId + 1
        /\ IF isRefreshing
           THEN /\ calls' = [calls EXCEPT ![i] =
                        [@ EXCEPT !.pc = "done", !.overlapped = overlap,
                                  !.result = ConflictResult]]
                /\ UNCHANGED isRefreshing
                /\ UNCHANGED effects
           ELSE /\ isRefreshing' = ~prev.threw
                /\ calls' = [j \in Ids |->
                        IF j = i
                        THEN [calls[j] EXCEPT !.pc = IF prev.threw THEN "done" ELSE "scrape",
                                  !.result = IF prev.threw
                                             THEN [success |-> FALSE,
                                                   error |-> <<"Unexpected token in JSON">>]
                                             ELSE @,
                                  !.overlapped = overlap,
                                  !.startTime = now,
                                  !.previousData =
                                      IF prev.threw THEN Null ELSE prev.data]
                        ELSE IF calls[j].pc = "done" THEN Retired
                        ELSE calls[j]]
                /\ effects' = [j \in Ids |->
                        IF calls[j].pc = "done" THEN {} ELSE effects[j]]
        /\ UNCHANGED <<lastRefreshResult, storageVars, cachedData, aggregationCaches, faults>>

\* The orchestrator with the entry guard inside the try: the finally of a
\* refused invocation clears the flag.
refreshSkillsData_GuardInsideTry(i) ==
    LET prev == loadSkillsData(fsData, bundledData)
        overlap == \E j \in Ids : calls[j].pc \in RunningPcs
    IN  /\ i = nextId
        /\ nextId' = nextId + 1
        /\ IF isRefreshing
           THEN /\ calls' = [calls EXCEPT ![i] =
                        [@ EXCEPT !.pc = "done", !.overlapped = overlap,
                                  !.result = ConflictResult]]
                /\ isRefreshing' = FALSE
                /\ UNCHANGED effects
           ELSE /\ isRefreshing' = TRUE
                /\ calls' = [j \in Ids |->
                        IF j = i
                        THEN [calls[j] EXCEPT !.pc = "scrape", !.overlapped = overlap,
                                  !.startTime = now,
                                  !.previousData =
                                      IF prev.threw THEN Null ELSE prev.data]
                        ELSE IF calls[j].pc = "done" THEN Retired
                        ELSE calls[j]]
                /\ effects' = [j \in Ids |->
                        IF calls[j].pc = "done" THEN {} ELSE effects[j]]
        /\ UNCHANGED <<lastRefreshResult, storageVars, cachedData, aggregationCaches, faults>>

refreshSkillsData(i) ==
    LET prev == loadSkillsData(fsData, bundledData)
        overlap == \E j \in Ids : calls[j].pc \in RunningPcs
    IN  /\ i = nextId
        /\ nextId' = nextId + 1
        /\ IF isRefreshing
           THEN /\ calls' = [calls EXCEPT ![i] =
                        [@ EXCEPT !.pc = "done", !.overlapped = overlap,
                                  !.result = ConflictResult]]
                /\ UNCHANGED isRefreshing
                /\ UNCHANGED effects
           ELSE /\ isRefreshing' = TRUE
                /\ calls' = [j \in Ids |->
                        IF j = i
                        THEN [calls[j] EXCEPT !.pc = "scrape", !.overlapped = overlap,
                                  !.startTime = now,
                                  !.previousData =
                                      IF prev.threw THEN Null ELSE prev.data]
                        ELSE IF calls[j].pc = "done" THEN Retired
                        ELSE calls[j]]
                /\ effects' = [j \in Ids |->
                        IF calls[j].pc = "done" THEN {} ELSE effects[j]]
        /\ UNCHANGED <<lastRefreshResult, storageVars, cachedData, aggregationCaches, faults>>

\* A direct call of the exported refreshSkillsData.
ManualRefresh(i) ==
    /\ refreshSkillsData(i)
    /\ UNCHANGED <<probe, verified, env, now, ticks, refreshTimer, timers>>

\* POST /api/admin/refresh
AdminPostRefresh(i) ==
    /\ IF isRefreshing
       THEN /\ i = nextId
            /\ nextId' = nextId + 1
            /\ calls' = [calls EXCEPT ![i] =
                    [@ EXCEPT !.pc = "done",
                              !.overlapped = \E j \in Ids : calls[j].pc \in RunningPcs,
                              !.result = [status |-> 409,
                                          error |-> <<"Refresh already in progress">>]]]
            /\ UNCHANGED <<isRefreshing, lastRefreshResult, storageVars, cachedData, aggregationCaches,
                           effects, faults>>
       ELSE refreshSkillsData(i)
    /\ UNCHANGED <<probe, verified, env, now, ticks, refreshTimer, timers>>

\* setInterval(callback, intervalMs): the handle of a new active timer.
setInterval(intervalMs) ==
    [serial |-> CHOOSE n \in 1..(Cardinality(timers) + 1) :
                    \A h \in timers : h.serial # n,
     intervalMs |-> intervalMs]

\* startRefreshScheduler(options) with its early return removed: a timer is
\* created whether or not one is active.
startRefreshScheduler_NoGuard(intervalMs, refreshOnStart) ==
    /\ refreshTimer' = setInterval(intervalMs)
    /\ timers' = timers \cup {setInterval(intervalMs)}
    /\ IF refreshOnStart
       THEN refreshSkillsData(nextId)
       ELSE UNCHANGED <<calls, nextId, isRefreshing, lastRefreshResult, storageVars,
                        cachedData, aggregationCaches, effects, faults>>
    /\ UNCHANGED <<verified, env, now, ticks>>

\* startRefreshScheduler(options)
startRefreshScheduler(intervalMs, refreshOnStart) ==
    IF refreshTimer # Null
    THEN UNCHANGED <<refreshTimer, timers, calls, nextId, isRefreshing, lastRefreshResult,
                     storageVars, cachedData, aggregationCaches, effects, faults, verified, env, now, ticks>>
    ELSE /\ refreshTimer' = setInterval(intervalMs)
         /\ timers' = timers \cup {setInterval(intervalMs)}
         /\ IF refreshOnStart
            THEN refreshSkillsData(nextId)
            ELSE UNCHANGED <<calls, nextId, isRefreshing, lastRefreshResult, storageVars,
                             cachedData, aggregationCaches, effects, faults>>
         /\ UNCHANGED <<verified, env, now, ticks>>

\* stopRefreshScheduler()
stopRefreshScheduler ==
    /\ IF refreshTimer # Null
       THEN /\ timers' = timers \ {refreshTimer}
            /\ refreshTimer' = Null
       ELSE UNCHANGED <<refreshTimer, timers>>
    /\ UNCHANGED <<verified, env, now, ticks, calls, nextId, isRefreshing,
                   lastRefreshResult, storageVars, cachedData, aggregationCaches, effects, faults>>

\* isSchedulerRunning()
isSchedulerRunning == refreshTimer # Null

\* The setInterval callback of an active timer.
TimerTick(i) ==
    /\ timers # {}
    /\ refreshSkillsData(i)
    /\ UNCHANGED <<probe, verified, env, now, ticks, refreshTimer, timers>>

frame == <<probe, env, now, ticks, refreshTimer, timers, nextId>>

\* scrapeSkills throws, or resolves and the run goes on to its next await.
ScrapeThrows(i) ==
    /\ calls[i].pc = "scrape"
    /\ faults < MaxFaults
    /\ \E message \in ScrapeErrors :
         Apply(i, Thrown([Ctx(i) EXCEPT !.faults = @ + 1], message))
    /\ UNCHANGED <<frame, verified>>

ScrapeResolvesWith(i, results) ==
    /\ calls[i].pc = "scrape"
    /\ \E raw \in results :
         \E x \in filterStaleSkills(i, [Ctx(i) EXCEPT !.call.scrapedSkills = raw,
                                                      !.call.enriched = enrichSkills(raw)]) :
            Apply(i, x)
    /\ UNCHANGED <<frame, verified>>

ScrapeResolves(i) == ScrapeResolvesWith(i, ScrapeResults)

\* loadValidationCacheFromS3(): the stored cache document, or null when the
\* read fails.
loadValidationCacheFromS3(stored, ok) == IF ok THEN stored ELSE Null

\* saveValidationCacheToS3(cache): the cache document stored afterwards.
saveValidationCacheToS3(stored, cache, ok) == IF ok THEN cache ELSE stored

\* The await of loadValidationCacheFromS3 in filterStaleSkills resolves.
CacheLoadResolves(i) ==
    /\ calls[i].pc = "cacheLoad"
    /\ \E ok \in BOOLEAN :
         LET got == loadValidationCacheFromS3(s3Cache, ok)
             cache == IF got = Null THEN EmptyCache ELSE got
         IN  /\ ok \/ faults < MaxFaults
             /\ \E x \in GroupAndSplit(i, [Ctx(i) EXCEPT
                                             !.faults = IF ok THEN @ ELSE @ + 1],
                                        cache, TRUE) : Apply(i, x)
    /\ UNCHANGED <<frame, verified>>

\* One fetchSkillDirs promise settles with one of `outcomes`.
FetchResolvesWith(i, outcomes) ==
    /\ calls[i].pc = "fetch"
    /\ \E source \in calls[i].inflight, outcome \in outcomes :
         /\ outcome.ok \/ faults < MaxFaults
         /\ \E x \in fetchSettled(i, [Ctx(i) EXCEPT
                                         !.faults = IF outcome.ok THEN @ ELSE @ + 1],
                                  source, outcome) : Apply(i, x)
         /\ verified' = IF outcome.ok THEN cachePut(verified, source, now) ELSE verified
    /\ UNCHANGED frame

FetchResolves(i) == FetchResolvesWith(i, FetchOutcomes)

\* saveToS3(output) answers.
SaveS3Resolves(i) ==
    /\ calls[i].pc = "saveS3"
    /\ \E s3ok \in BOOLEAN :
         LET x0 == Ctx(i)
             x1 == IF s3ok
                   THEN [x0 EXCEPT !.s3 = x0.call.output, !.eff = @ \cup {"saveToS3"}]
                   ELSE [x0 EXCEPT !.faults = @ + 1]
         IN  /\ s3ok \/ faults < MaxFaults
             /\ \E x \in SaveLocalAndReload(i, x1, s3ok) : Apply(i, x)
    /\ UNCHANGED <<frame, verified>>

\* loadFromS3 inside reloadDataAsync answers.
ReloadS3Resolves(i) ==
    /\ calls[i].pc = "reloadS3"
    /\ \/ Apply(i, ReloadAndReturn(i, Ctx(i), s3Data))
       \/ /\ faults < MaxFaults
          /\ Apply(i, ReloadAndReturn(i, [Ctx(i) EXCEPT !.faults = @ + 1], NoData))
    /\ UNCHANGED <<frame, verified>>

Effect(i, what) ==
    IF calls[i].pc = "retired" THEN effects
    ELSE [effects EXCEPT ![i] = @ \cup {what}]

\* A remote write that nobody awaits lands or fails.
PutLands(p) ==
    /\ p \in pendingPuts
    /\ pendingPuts' = pendingPuts \ {p}
    /\ IF p.kind = "cache"
       THEN /\ s3Cache' = saveValidationCacheToS3(s3Cache, p.payload, TRUE)
            /\ effects' = Effect(p.by, "saveValidationCacheToS3")
            /\ UNCHANGED s3Data
       ELSE /\ s3Data' = p.payload
            /\ effects' = Effect(p.by, "seedS3")
            /\ UNCHANGED s3Cache
    /\ UNCHANGED <<probe, verified, env, now, ticks, fsData, bundledData, cachedData, aggregationCaches, isRefreshing,
                   lastRefreshResult, refreshTimer, timers, calls, nextId, faults>>

PutFails(p) ==
    /\ p \in pendingPuts
    /\ faults < MaxFaults
    /\ faults' = faults + 1
    /\ pendingPuts' = pendingPuts \ {p}
    /\ s3Cache' = IF p.kind = "cache"
                  THEN saveValidationCacheToS3(s3Cache, p.payload, FALSE)
                  ELSE s3Cache
    /\ UNCHANGED <<probe, verified, env, now, ticks, s3Data, fsData, bundledData, cachedData, aggregationCaches,
                   isRefreshing, lastRefreshResult, refreshTimer, timers, calls, nextId, effects>>

\* registry getData(): the first read loads synchronously.
getData ==
    /\ cachedData = Null
    /\ ~loadSkillsData(fsData, bundledData).threw
    /\ cachedData' = loadSkillsData(fsData, bundledData).data
    /\ UNCHANGED <<aggregationCaches, probe, verified, env, now, ticks, storageVars,
                   isRefreshing, lastRefreshResult, refreshTimer, timers, calls, nextId,
                   effects, faults>>

\* Time passes while no run is in progress and a later run can still read it.
Tick ==
    /\ ticks < MaxTicks
    /\ nextId \in Ids
    /\ \A i \in Ids : calls[i].pc \notin RunningPcs
    /\ ticks' = ticks + 1
    /\ now' = now + TickMs
    /\ UNCHANGED <<probe, verified, env, storageVars, cachedData, aggregationCaches, isRefreshing, lastRefreshResult,
                   refreshTimer, timers, calls, nextId, effects, faults>>

\* The steps of a run between its awaits, and of the writes nobody awaits.
RunSteps ==
    \/ \E i \in Ids : ScrapeThrows(i)
    \/ \E i \in Ids : ScrapeResolves(i)
    \/ \E i \in Ids : CacheLoadResolves(i)
    \/ \E i \in Ids : FetchResolves(i)
    \/ \E i \in Ids : SaveS3Resolves(i)
    \/ \E i \in Ids : ReloadS3Resolves(i)
    \/ \E p \in pendingPuts : PutLands(p)
    \/ \E p \in pendingPuts : PutFails(p)

\* Refreshes triggered by direct calls and by the admin route, in every
\* storage and credential configuration.
Next ==
    \/ \E i \in Ids : ManualRefresh(i)
    \/ \E i \in Ids : AdminPostRefresh(i)
    \/ RunSteps

Spec == Init /\ [][Next]_vars

\* Every trigger of a refresh (direct call, admin route, timer, refreshOnStart),
\* with the remote store, the data directory and the credential
\* all configured and a snapshot in both stores.
AllConfigured == [S3_BUCKET |-> TRUE, SKILLS_DATA_DIR |-> TRUE, GITHUB_TOKEN |-> TRUE]

QuietInit ==
    /\ InitWith({AllConfigured})
    /\ s3Data = S3Snap
    /\ fsData = FsSnap

TimedInit == QuietInit /\ probe = Null

TimedNext ==
    \/ \E i \in Ids : ManualRefresh(i)
    \/ \E i \in Ids : AdminPostRefresh(i)
    \/ \E i \in Ids : TimerTick(i)
    \/ \E ms \in IntervalChoices, b \in BOOLEAN :
          /\ (b => nextId \in Ids)
          /\ startRefreshScheduler(ms, b)
          /\ UNCHANGED probe
    \/ stopRefreshScheduler /\ UNCHANGED probe
    \/ RunSteps

TimedSpec == TimedInit /\ [][TimedNext]_vars

\* Successive refreshes with the clock advancing between them, so that entries
\* of the verification cache written by one run are fresh or stale in the next.
ClockNext ==
    \/ \E i \in Ids : ManualRefresh(i)
    \/ RunSteps
    \/ Tick

ClockSpec == TimedInit /\ [][ClockNext]_vars

\* Manual and admin refreshes of a deployment with both stores and no GitHub
\* token, where every promise a run awaits eventually settles.
LiveEnv == [S3_BUCKET |-> TRUE, SKILLS_DATA_DIR |-> TRUE, GITHUB_TOKEN |-> FALSE]

LiveInit == InitWith({LiveEnv}) /\ probe = Null

LiveAwaits ==
    \/ \E i \in Ids : ScrapeThrows(i)
    \/ \E i \in Ids : SaveS3Resolves(i)
    \/ \E i \in Ids : ReloadS3Resolves(i)
    \/ \E i \in Ids : ScrapeResolves(i)

LiveNext ==
    \/ \E i \in Ids : ManualRefresh(i)
    \/ \E i \in Ids : AdminPostRefresh(i)
    \/ LiveAwaits
    \/ \E p \in pendingPuts : PutLands(p)

LiveSpec == LiveInit /\ [][LiveNext]_vars /\ WF_vars(LiveAwaits)

\* Number values: NaN stands outside every whole number the inputs produce.
NaN == 0 - 1000000

digit(c) ==
    CASE c = "0" -> 0 [] c = "1" -> 1 [] c = "2" -> 2 [] c = "3" -> 3 [] c = "4" -> 4
      [] c = "5" -> 5 [] c = "6" -> 6 [] c = "7" -> 7 [] c = "8" -> 8 [] c = "9" -> 9
      [] OTHER -> NaN

\* parseInt(str, 10): an optional sign, then the longest run of leading digits;
\* NaN when there is none.
RECURSIVE parseDigits(_, _)
parseDigits(str, acc) ==
    IF str = <<>> \/ digit(Head(str)) = NaN THEN acc
    ELSE parseDigits(Tail(str), 10 * acc + digit(Head(str)))

parseInt(str) ==
    LET negative == str # <<>> /\ Head(str) = "-"
        body == IF negative THEN Tail(str) ELSE str
    IN  IF body = <<>> \/ digit(Head(body)) = NaN THEN NaN
        ELSE IF negative THEN 0 - parseDigits(body, 0) ELSE parseDigits(body, 0)

\* Math.max(a, b) and a * b over numbers that may be NaN.
mathMax(a, b) == IF a = NaN \/ b = NaN THEN NaN ELSE IF a > b THEN a ELSE b

times(a, b) == IF a = NaN \/ b = NaN THEN NaN ELSE a * b

\* value || fallback for a string that may be undefined or empty.
orElse(str, fallback) == IF falsy(str) THEN fallback ELSE str

\* createSkillsApiServer(options): the scheduler part.
createSkillsApiServer(autoRefresh, refreshIntervalMinutes) ==
    IF autoRefresh
    THEN startRefreshScheduler(times(refreshIntervalMinutes, 60 * 1000), FALSE)
    ELSE UNCHANGED <<refreshTimer, timers, calls, nextId, isRefreshing, lastRefreshResult,
                     storageVars, cachedData, aggregationCaches, effects, faults, verified, env, now, ticks>>

\* What the callers pass as an interval: nothing, or text from the environment
\* or the query string.
IntervalTexts == {Undefined, <<>>, <<"1">>, <<"5">>, <<"4", "5">>, <<"a", "b", "c">>}

\* A direct call startRefreshScheduler({intervalMs, refreshOnStart}).
StartCall ==
    \E given \in {<<>>, <<60 * 1000>>, <<5 * 60 * 1000>>}, b \in BOOLEAN :
        LET intervalMs == IF given = <<>> THEN 30 * 60 * 1000 ELSE given[1]
        IN  /\ (b /\ refreshTimer = Null) => nextId \in Ids
            /\ startRefreshScheduler(intervalMs, b)
            /\ probe' = [fn |-> "startRefreshScheduler", arg |-> <<ToString(intervalMs)>>,
                         running |-> isSchedulerRunning, response |-> Null]

\* The server entry point: REFRESH_INTERVAL and AUTO_REFRESH read from the
\* environment and handed to createSkillsApiServer.
ServerMain ==
    \E text \in IntervalTexts, AUTO_REFRESH \in BOOLEAN :
        LET REFRESH_INTERVAL == parseInt(orElse(text, <<"3", "0">>))
        IN  /\ createSkillsApiServer(AUTO_REFRESH, REFRESH_INTERVAL)
            /\ probe' = [fn |-> "createSkillsApiServer",
                         arg |-> IF text = Undefined THEN <<>> ELSE text,
                         running |-> isSchedulerRunning, response |-> AUTO_REFRESH]

\* POST /api/admin/scheduler/start?interval=N
AdminSchedulerStart ==
    \E text \in IntervalTexts :
        LET intervalMinutes == parseInt(orElse(text, <<"3", "0">>))
            intervalMs == times(mathMax(5, intervalMinutes), 60 * 1000)
        IN  /\ IF isSchedulerRunning
               THEN UNCHANGED <<refreshTimer, timers, calls, nextId, isRefreshing,
                                lastRefreshResult, storageVars, cachedData, aggregationCaches, effects,
                                faults, verified, env, now, ticks>>
               ELSE startRefreshScheduler(intervalMs, FALSE)
            /\ probe' = [fn |-> "POST /scheduler/start",
                         arg |-> IF text = Undefined THEN <<>> ELSE text,
                         running |-> isSchedulerRunning,
                         response |-> IF isSchedulerRunning
                                      THEN "Scheduler already running"
                                      ELSE "Scheduler started"]

\* A direct call stopRefreshScheduler().
StopCall ==
    /\ stopRefreshScheduler
    /\ probe' = [fn |-> "stopRefreshScheduler", arg |-> <<>>,
                 running |-> isSchedulerRunning, response |-> Null]

\* POST /api/admin/scheduler/stop
AdminSchedulerStop ==
    /\ IF ~isSchedulerRunning
       THEN UNCHANGED <<refreshTimer, timers, calls, nextId, isRefreshing,
                        lastRefreshResult, storageVars, cachedData, aggregationCaches, effects,
                        faults, verified, env, now, ticks>>
       ELSE stopRefreshScheduler
    /\ probe' = [fn |-> "POST /scheduler/stop", arg |-> <<>>,
                 running |-> isSchedulerRunning,
                 response |-> IF isSchedulerRunning THEN "Scheduler stopped"
                              ELSE "Scheduler not running"]

\* The scheduler driven through every way of starting and stopping it, with
\* a data directory and neither a remote store nor a credential, so that a
\* run is the scrape and what follows it in one step.
SchedEnv == [S3_BUCKET |-> FALSE, SKILLS_DATA_DIR |-> TRUE, GITHUB_TOKEN |-> FALSE]

SchedInit == InitWith({SchedEnv}) /\ fsData = FsSnap /\ probe = Null

SchedNext ==
    \/ StartCall
    \/ ServerMain
    \/ AdminSchedulerStart
    \/ StopCall
    \/ AdminSchedulerStop
    \/ \E i \in Ids : TimerTick(i)
    \/ \E i \in Ids : ScrapeThrows(i)
    \/ \E i \in Ids : ScrapeResolves(i)

SchedSpec == SchedInit /\ [][SchedNext]_vars

\* Direct calls of the storage layer, one at a time, in every configuration of
\* the two stores and with every content of the three documents.
NewSnap == Snapshot(StartMs, <<skA, skB>>)

StoreInit ==
    /\ env \in [S3_BUCKET : BOOLEAN, SKILLS_DATA_DIR : BOOLEAN, GITHUB_TOKEN : {FALSE}]
    /\ now = StartMs
    /\ ticks = 0
    /\ s3Data \in (IF env.S3_BUCKET THEN {NoData, S3Snap, Corrupt} ELSE {NoData})
    /\ s3Cache = EmptyCache
    /\ fsData \in (IF env.SKILLS_DATA_DIR THEN {NoData, FsSnap, Corrupt} ELSE {NoData})
    /\ bundledData \in {NoData, BundledSnap, Corrupt}
    /\ pendingPuts = {}
    /\ cachedData = Null
    /\ cachedSources = Null
    /\ cachedOwners = Null
    /\ cachedTopSkills = EmptyTopSkills
    /\ isRefreshing = FALSE
    /\ lastRefreshResult = Null
    /\ refreshTimer = Null
    /\ timers = {}
    /\ calls = [i \in Ids |-> NewCall]
    /\ nextId = 1
    /\ effects = [i \in Ids |-> {}]
    /\ faults = 0
    /\ verified = EmptyCache
    /\ probe = Null

StoreIdle == IF "pc" \in DOMAIN probe THEN probe.pc = "done" ELSE TRUE

Documents == [s3 |-> s3Data, fs |-> fsData, bundled |-> bundledData]

storeFrame == <<verified, env, now, ticks, s3Cache, cachedData, aggregationCaches, isRefreshing,
                lastRefreshResult, refreshTimer, timers, calls, nextId, effects, faults>>

\* The rest of loadSkillsDataAsync once loadFromS3 has answered `got`.
LoadFinish(got) ==
    LET r == loadSkillsDataAsync(1, Ctx(1), got)
    IN  /\ pendingPuts' = r.puts
        /\ probe' = [fn |-> "loadSkillsDataAsync", pc |-> "done", got |-> got,
                     before |-> Documents, threw |-> r.threw, out |-> r.data,
                     started |-> r.puts \ pendingPuts]
        /\ UNCHANGED <<s3Data, fsData, bundledData, storeFrame>>

\* loadSkillsDataAsync() is called and runs to its first await.
LoadStarts ==
    /\ StoreIdle
    /\ IF isS3Configured
       THEN /\ probe' = [fn |-> "loadSkillsDataAsync", pc |-> "loadFromS3"]
            /\ UNCHANGED <<storageVars, storeFrame>>
       ELSE LoadFinish(NoData)

\* loadFromS3 answers: what the store holds, or null because the read failed.
LoadS3Answers ==
    /\ IF "pc" \in DOMAIN probe THEN probe.pc = "loadFromS3" ELSE FALSE
    /\ \E got \in {loadFromS3(s3Data), NoData} : LoadFinish(got)

\* saveSkillsDataAsync that reports a local write as done once attempted.
SaveFinish_ReportAttempt(data, s3ok) ==
    \E ok \in BOOLEAN :
        LET x == saveLocal(Ctx(1), data, ok)
        IN  /\ fsData' = x.fs
            /\ bundledData' = x.bundled
            /\ probe' = [fn |-> "saveSkillsDataAsync", pc |-> "done", data |-> data,
                         before |-> Documents, wrote |-> [s3 |-> s3ok, local |-> ok],
                         threw |-> FALSE, out |-> [s3 |-> s3ok, filesystem |-> TRUE]]
            /\ UNCHANGED <<s3Cache, pendingPuts, storeFrame>>

\* The filesystem half of saveSkillsDataAsync and its return.
SaveFinish(data, s3ok) ==
    \E ok \in BOOLEAN :
        LET x == saveLocal(Ctx(1), data, ok)
        IN  /\ fsData' = x.fs
            /\ bundledData' = x.bundled
            /\ probe' = [fn |-> "saveSkillsDataAsync", pc |-> "done", data |-> data,
                         before |-> Documents, wrote |-> [s3 |-> s3ok, local |-> ok],
                         threw |-> FALSE, out |-> [s3 |-> s3ok, filesystem |-> ok]]
            /\ UNCHANGED <<s3Cache, pendingPuts, storeFrame>>

\* saveSkillsDataAsync(data) is called and runs to its first await.
SaveStarts ==
    /\ StoreIdle
    /\ IF isS3Configured
       THEN /\ probe' = [fn |-> "saveSkillsDataAsync", pc |-> "saveToS3", data |-> NewSnap]
            /\ UNCHANGED <<storageVars, storeFrame>>
       ELSE /\ SaveFinish(NewSnap, FALSE)
            /\ UNCHANGED s3Data

\* saveToS3 answers true after the write, or false after a failed write.
SaveS3Answers ==
    /\ IF "pc" \in DOMAIN probe THEN probe.pc = "saveToS3" ELSE FALSE
    /\ \E s3ok \in BOOLEAN :
          /\ s3Data' = IF s3ok THEN probe.data ELSE s3Data
          /\ SaveFinish(probe.data, s3ok)

StoreNext ==
    \/ LoadStarts
    \/ LoadS3Answers
    \/ SaveStarts
    \/ SaveS3Answers
    \/ \E p \in pendingPuts : PutLands(p)
    \/ \E p \in pendingPuts : PutFails(p)

StoreSpec == StoreInit /\ [][StoreNext]_vars

\* One refresh over more repositories than one batch holds, with a credential,
\* a data directory and no remote store.
WideScrape ==
    [k \in 1..(BATCH_SIZE + 2) |->
        RawSkill(<<"o", "/", ToString(k)>>, <<"s">>, <<"s">>, 1)]

BatchEnv == [S3_BUCKET |-> FALSE, SKILLS_DATA_DIR |-> TRUE, GITHUB_TOKEN |-> TRUE]

BatchOutcomes == {FetchFailed, FetchOk({<<"s">>})}

BatchInit == InitWith({BatchEnv}) /\ probe = Null

BatchNext ==
    \/ ManualRefresh(1)
    \/ \E i \in Ids : ScrapeResolvesWith(i, {WideScrape})
    \/ \E i \in Ids : FetchResolvesWith(i, BatchOutcomes)

BatchSpec == BatchInit /\ [][BatchNext]_vars

\* One refresh over five repositories of five owners, one skill each, where a
\* repository's tree can come back without any skill directory.
SparseScrape ==
    [k \in 1..5 |-> RawSkill(<<ToString(k), "/", "r">>, <<"s">>, <<"s">>, 1)]

SparseOutcomes == {FetchFailed, FetchOk({}), FetchOk({<<"s">>})}

SparseNext ==
    \/ ManualRefresh(1)
    \/ \E i \in Ids : ScrapeResolvesWith(i, {SparseScrape})
    \/ \E i \in Ids : FetchResolvesWith(i, SparseOutcomes)

SparseSpec == BatchInit /\ [][SparseNext]_vars

\* --------------------------------------------------- direct function calls

\* The skills of one repository handed to filterRepoSkills: a skill whose name
\* is its id (a, b), one whose name differs from its id (c, named c-d), and one
\* that only its name can match (x, named c).
RepoSkillPool ==
    { enrichSkill(RawSkill(SrcA, <<"a">>, <<"a">>, 40)),
      enrichSkill(RawSkill(SrcA, <<"b">>, <<"b">>, 30)),
      enrichSkill(RawSkill(SrcA, <<"c">>, <<"c", "-", "d">>, 20)),
      enrichSkill(RawSkill(SrcA, <<"x">>, <<"c">>, 10)) }

RepoSkillLists ==
    UNION { [1..n -> RepoSkillPool] : n \in 0..MaxRepoSkills }

\* Directory names a repository tree can contain.
RepoDirSets == SUBSET { <<"a">>, <<"c">>, <<"c", "-", "d">>, <<"z">> }

FilterRepoCalls ==
    { [fn |-> "filterRepoSkills", source |-> SrcA, repoSkills |-> l,
       actualDirs |-> d, out |-> Null] : l \in RepoSkillLists, d \in RepoDirSets }

\* filterRepoSkills(source, repoSkills, actualDirs) called and answered.
CallFilterRepoSkills ==
    /\ probe.fn = "filterRepoSkills"
    /\ probe.out = Null
    /\ probe' = [probe EXCEPT
                    !.out = filterRepoSkills(probe.source, probe.repoSkills,
                                             probe.actualDirs)]
    /\ UNCHANGED <<verified, env, now, ticks, storageVars, cachedData, aggregationCaches, isRefreshing,
                   lastRefreshResult, refreshTimer, timers, calls, nextId, effects, faults>>

\* Candidate lists handed to validateScrapedData: n skills spread over nsrc
\* repositories, all named alike or all named differently, the records at the
\* positions `bad` spoiled in the way `how` (a required field empty or absent).
Spoil(skill, how) ==
    IF how.as = "empty" THEN [skill EXCEPT ![how.f] = <<>>]
    ELSE [g \in DOMAIN skill \ {how.f} |-> skill[g]]

Cand(n, nsrc, dup, bad, how) ==
    [k \in 1..n |->
        LET skill == enrichSkill(RawSkill(<<"o", "/", ToString((k - 1) % nsrc)>>,
                                          <<ToString(k)>>,
                                          IF dup THEN <<"n">> ELSE <<ToString(k)>>, 10))
        IN  IF k \in bad THEN Spoil(skill, how) ELSE skill]

Hows == [f : {"source", "skillId", "name"}, as : {"empty", "absent"}]

NoHow == [f |-> "name", as |-> "empty"]

\* A previous snapshot of p skills with `installs` installs each.
Prev(p, installs) ==
    [scrapedAt |-> toISOString(0), totalSkills |-> p, totalSources |-> 1,
     totalOwners |-> 1,
     skills |-> [k \in 1..p |->
         enrichSkill(RawSkill(<<"o", "/", "0">>, <<ToString(k)>>, <<ToString(k)>>,
                              installs))]]

\* Options objects: every subset of the options supplied, the rest defaulted.
OptionsOver(minSkills, minSources, maxDrops, prevs) ==
    UNION { [minSkillCount : minSkills, minSourceCount : minSources],
            [minSkillCount : minSkills, minSourceCount : minSources,
             maxDropPercentage : maxDrops],
            [minSkillCount : minSkills, minSourceCount : minSources,
             previousData : prevs],
            [minSkillCount : minSkills, minSourceCount : minSources,
             maxDropPercentage : maxDrops, previousData : prevs] }

ValidateCall(skills, options) ==
    [fn |-> "validateScrapedData", skills |-> skills, options |-> options, out |-> Null,
     again |-> Null]

\* Calls that vary the list size, the source count and the two floors.
FloorCalls ==
    { ValidateCall(Cand(n, nsrc, FALSE, {}, NoHow), o) :
        n \in 0..MaxCand, nsrc \in 1..2,
        o \in UNION { [minSkillCount : 0..3, minSourceCount : 0..2],
                      [minSkillCount : 0..3], [minSourceCount : 0..2], {<<>>} } }
    \cup
    { ValidateCall(Cand(n, nsrc, FALSE, {}, NoHow), <<>>) :
        n \in {999, 1000}, nsrc \in {99, 100} }

\* Calls that vary the spoiled records, within and beyond the sample.
SampleCalls ==
    { ValidateCall(Cand(n, 1, FALSE, bad, how),
                   [minSkillCount |-> 0, minSourceCount |-> 0]) :
        n \in {1, 9, 10, 11, 20, 100, 101, 120},
        bad \in {1..0, 1..1, 1..2, 2..3, 1..10, 1..11, 90..100, 90..101, 101..120},
        how \in Hows }

\* Calls that vary the previous snapshot, the drop ceiling, the install totals
\* and the names.
DropCalls ==
    { ValidateCall(Cand(n, 1, dup, {}, NoHow), o) :
        n \in {0, 8, 9, 10, 17, 18, 19, 20}, dup \in BOOLEAN,
        o \in OptionsOver({0}, {0}, {10, 50, 55},
                          {Null} \cup {Prev(p, q) : p \in {0, 10, 20}, q \in {10, 100}}) }
    \cup
    { ValidateCall(Cand(n, 100, FALSE, {}, NoHow), [previousData |-> Prev(2000, 10)]) :
        n \in {900, 1900} }

ValidateCalls == FloorCalls \cup SampleCalls \cup DropCalls

\* validateScrapedData(skills, options) called and answered.
\* The validator with its errors array kept at module level: a second call
\* appends to the messages of the first.
CallValidateScrapedData_SharedErrors ==
    /\ probe.fn = "validateScrapedData"
    /\ probe.again = Null
    /\ LET answer == validateScrapedData(probe.skills, probe.options)
           errors == probe.out.errors \o answer.errors
       IN  probe' = IF probe.out = Null
                    THEN [probe EXCEPT !.out = answer]
                    ELSE [probe EXCEPT !.again = [answer EXCEPT !.errors = errors,
                                                                !.valid = (Len(errors) = 0)]]
    /\ UNCHANGED <<verified, env, now, ticks, storageVars, cachedData, aggregationCaches, isRefreshing,
                   lastRefreshResult, refreshTimer, timers, calls, nextId, effects, faults>>

\* A call of validateScrapedData on the arguments held by the caller; the
\* caller may call it a second time with the same two objects.
CallValidateScrapedData ==
    /\ probe.fn = "validateScrapedData"
    /\ probe.again = Null
    /\ LET answer == validateScrapedData(probe.skills, probe.options)
       IN  probe' = IF probe.out = Null
                    THEN [probe EXCEPT !.out = answer]
                    ELSE [probe EXCEPT !.again = answer]
    /\ UNCHANGED <<verified, env, now, ticks, storageVars, cachedData, aggregationCaches, isRefreshing,
                   lastRefreshResult, refreshTimer, timers, calls, nextId, effects, faults>>

\* Scraped lists handed to enrichSkills: up to MaxEnrich skills whose source
\* has an owner and a repository, no '/', nothing at all, a third segment, or
\* an empty owner or repository.
MaxEnrich == 2

EnrichSources ==
    { <<"a", "/", "b">>, <<"a", "b">>, <<>>, <<"a", "/", "b", "/", "c">>,
      <<"/", "b">>, <<"a", "/">> }

EnrichCalls ==
    { [fn |-> "enrichSkills", skills |-> skills, out |-> Null] :
        skills \in UNION { [1..n -> {RawSkill(src, <<"c">>, <<"c", "-", "d">>, 1) :
                                        src \in EnrichSources}] : n \in 0..MaxEnrich } }

\* enrichSkills(skills) called and answered.
CallEnrichSkills ==
    /\ probe.fn = "enrichSkills"
    /\ probe.out = Null
    /\ probe' = [probe EXCEPT !.out = [enriched |-> enrichSkills(probe.skills)]]
    /\ UNCHANGED <<verified, env, now, ticks, storageVars, cachedData, aggregationCaches, isRefreshing,
                   lastRefreshResult, refreshTimer, timers, calls, nextId, effects, faults>>

\* ------------------------------------------- server.ts: cache headers

\* registry getMetadata() of the data getData() returns.
getMetadata(data) ==
    [scrapedAt |-> data.scrapedAt, totalSkills |-> data.totalSkills,
     totalSources |-> data.totalSources, totalOwners |-> data.totalOwners]

\* `"${scrapedAt}"`
etagOf(scrapedAt) == <<"\"", scrapedAt, "\"">>

endsWith(path, suffix) == path # <<>> /\ path[Len(path)] = suffix

\* The middleware on the skills routes, after the route handler has answered 200.
cacheHeaders(path, ifNoneMatch, metadata) ==
    IF endsWith(path, "/files") \/ endsWith(path, "/content")
    THEN [status |-> 200, etag |-> Undefined, maxAge |-> 3600]
    ELSE IF ifNoneMatch = etagOf(metadata.scrapedAt)
    THEN [status |-> 304, etag |-> Undefined, maxAge |-> 0]
    ELSE [status |-> 200, etag |-> etagOf(metadata.scrapedAt), maxAge |-> 300]

RequestPaths ==
    { <<"/api/skills">>, <<"/api/skills/", "a/x/a", "/files">>,
      <<"/api/skills/", "a/x/a", "/content">> }

\* A client that has made no request yet.
NoRequest ==
    [fn |-> "request", path |-> <<>>, sent |-> Undefined, status |-> 0,
     etag |-> Undefined, held |-> Undefined, served |-> Null]

\* A GET on a skills route; the client sends no validator or the last ETag it
\* received.  getData() loads synchronously when the registry is empty.
SkillsRequest ==
    \E path \in RequestPaths, ifNoneMatch \in {Undefined, probe.held} :
        LET loaded == IF cachedData = Null
                      THEN loadSkillsData(fsData, bundledData)
                      ELSE [threw |-> FALSE, data |-> cachedData]
            r == cacheHeaders(path, ifNoneMatch, getMetadata(loaded.data))
        IN  /\ ~loaded.threw
            /\ cachedData' = loaded.data
            /\ probe' = [probe EXCEPT
                            !.path = path, !.sent = ifNoneMatch, !.status = r.status,
                            !.etag = r.etag,
                            !.held = IF r.etag # Undefined THEN r.etag ELSE @,
                            !.served = loaded.data.scrapedAt]
            /\ UNCHANGED <<aggregationCaches, verified, env, now, ticks, storageVars,
                           isRefreshing, lastRefreshResult, refreshTimer, timers, calls,
                           nextId, effects, faults>>

EtagInit == InitWith({LiveEnv}) /\ s3Data = S3Snap /\ fsData = FsSnap /\ probe = NoRequest

EtagNext ==
    \/ \E i \in Ids : ManualRefresh(i)
    \/ LiveAwaits
    \/ \E p \in pendingPuts : PutLands(p)
    \/ Tick
    \/ SkillsRequest

EtagSpec == EtagInit /\ [][EtagNext]_vars

\* A deployment whose stored verification cache holds a fresh entry for one
\* source of the scrape and an entry for a source no skill comes from any
\* more; refreshes run while skills routes are requested.
SrcGone == <<"g", "/", "z">>

StoredCache ==
    cachePut(cachePut(EmptyCache, SrcA,
                      [validatedAt |-> toISOString(StartMs - TickMs),
                       dirs |-> {<<"a">>, <<"c">>}]),
             SrcGone, [validatedAt |-> toISOString(0), dirs |-> {<<"z">>}])

CacheInit ==
    /\ InitWithCache({AllConfigured}, {StoredCache})
    /\ s3Data = S3Snap
    /\ fsData = FsSnap
    /\ probe = NoRequest

CacheNext ==
    \/ \E i \in Ids : ManualRefresh(i)
    \/ RunSteps
    \/ SkillsRequest

CacheSpec == CacheInit /\ [][CacheNext]_vars

\* ------------------------------------------------------- routes/skills.ts

toLowerCase(c) ==
    CASE c = "A" -> "a" [] c = "B" -> "b" [] c = "C" -> "c" [] c = "D" -> "d"
      [] c = "X" -> "x" [] c = "Y" -> "y" [] OTHER -> c

lower(str) == [k \in 1..Len(str) |-> toLowerCase(str[k])]

\* hay.includes(needle)
includes(hay, needle) ==
    \E k \in 0..(Len(hay) - Len(needle)) : SubSeq(hay, k + 1, k + Len(needle)) = needle

\* The collation order of the characters that occur in names.
charRank(c) ==
    CASE c = "-" -> 0 [] c = "a" -> 1 [] c = "A" -> 2 [] c = "b" -> 3 [] c = "B" -> 4
      [] c = "c" -> 5 [] c = "C" -> 6 [] c = "d" -> 7 [] c = "D" -> 8 [] OTHER -> 9

RECURSIVE localeCompare(_, _)
localeCompare(a, b) ==
    IF a = <<>> THEN (IF b = <<>> THEN 0 ELSE 0 - 1)
    ELSE IF b = <<>> THEN 1
    ELSE IF charRank(Head(a)) # charRank(Head(b)) THEN charRank(Head(a)) - charRank(Head(b))
    ELSE localeCompare(Tail(a), Tail(b))

\* The comparator handed to filtered.sort.
compareSkills(a, b, sortBy, sortOrder) ==
    LET comparison == IF sortBy = <<"name">> THEN localeCompare(a.name, b.name)
                      ELSE a.installs - b.installs
    IN  IF sortOrder = <<"desc">> THEN 0 - comparison ELSE comparison

\* Array.prototype.sort is stable: an element goes behind every element that
\* does not compare greater.
RECURSIVE sortInsert(_, _, _, _)
sortInsert(sorted, s, sortBy, sortOrder) ==
    IF sorted = <<>> THEN <<s>>
    ELSE IF compareSkills(Head(sorted), s, sortBy, sortOrder) <= 0
    THEN <<Head(sorted)>> \o sortInsert(Tail(sorted), s, sortBy, sortOrder)
    ELSE <<s>> \o sorted

RECURSIVE sortSkills(_, _, _)
sortSkills(list, sortBy, sortOrder) ==
    IF list = <<>> THEN <<>>
    ELSE sortInsert(sortSkills(SubSeq(list, 1, Len(list) - 1), sortBy, sortOrder),
                    list[Len(list)], sortBy, sortOrder)

\* The three filters of searchSkills, in order.
filterSkills(skills, params) ==
    LET q == lower(params.query)
        hit(skill) == \/ includes(lower(skill.name), q)
                      \/ includes(lower(skill.displayName), q)
                      \/ includes(lower(skill.source), q)
                      \/ includes(lower(skill.skillId), q)
        byQuery == IF falsy(params.query) THEN skills
                   ELSE FilterSeq(skills, {sk \in Range(skills) : hit(sk)})
        byOwner == IF falsy(params.owner) THEN byQuery
                   ELSE FilterSeq(byQuery, {sk \in Range(byQuery) : sk.owner = params.owner})
    IN  IF falsy(params.repo) THEN byOwner
        ELSE FilterSeq(byOwner, {sk \in Range(byOwner) : sk.source = params.repo})

\* n || fallback for a number: 0 and NaN are falsy.
numberOr(n, fallback) == IF n = NaN \/ n = 0 THEN fallback ELSE n

mathMin(a, b) == IF a = NaN \/ b = NaN THEN NaN ELSE IF a < b THEN a ELSE b

\* Math.ceil(a / b) for a >= 0 and b > 0.
mathCeilDiv(a, b) == (a + b - 1) \div b

\* list.slice(start, end) for start >= 0.
slice(list, start, end) == SubSeq(list, start + 1, Min(end, Len(list)))

\* The page clamp without the floor of 1 on the page size.
paginate_NoFloor(filtered, params) ==
    LET page == mathMax(1, numberOr(params.page, 1))
        pageSize == mathMin(100, numberOr(params.pageSize, 20))
        startIndex == (page - 1) * pageSize
    IN  [skills |-> slice(filtered, startIndex, startIndex + pageSize),
         total |-> Len(filtered), page |-> page, pageSize |-> pageSize,
         totalPages |-> mathCeilDiv(Len(filtered), pageSize)]

\* The pagination part of searchSkills.
paginate(filtered, params) ==
    LET page == mathMax(1, numberOr(params.page, 1))
        pageSize == mathMin(100, mathMax(1, numberOr(params.pageSize, 20)))
        startIndex == (page - 1) * pageSize
    IN  [skills |-> slice(filtered, startIndex, startIndex + pageSize),
         total |-> Len(filtered), page |-> page, pageSize |-> pageSize,
         totalPages |-> mathCeilDiv(Len(filtered), pageSize)]

searchSkills(skills, params) ==
    paginate(sortSkills(filterSkills(skills, params),
                        orElse(params.sortBy, <<"installs">>),
                        orElse(params.sortOrder, <<"desc">>)),
             params)

\* GET /api/skills: the query string is parsed and handed to searchSkills.
listSkills(skills, req) ==
    searchSkills(skills,
                 [query |-> req.query, owner |-> req.owner, repo |-> req.repo,
                  sortBy |-> req.sortBy, sortOrder |-> req.sortOrder,
                  page |-> parseInt(orElse(req.page, <<"1">>)),
                  pageSize |-> parseInt(orElse(req.pageSize, <<"20">>))])

\* The registries and query strings of the list requests.
ListRegistries == { <<>>, enrichSkills(<<skC, skA, skD, skB>>) }

PageTexts == {Undefined, <<"0">>, <<"1">>, <<"2">>, <<"3">>, <<"-", "2">>, <<"x">>}

PageSizeTexts ==
    {Undefined, <<>>, <<"0">>, <<"1">>, <<"2">>, <<"-", "1">>, <<"1", "0", "1">>,
     <<"3", "x">>, <<"x">>}

ListRequests ==
    [query : {Undefined, <<"A">>}, owner : {Undefined, <<"a">>, <<"z">>},
     repo : {Undefined, SrcA}, sortBy : {Undefined, <<"name">>},
     sortOrder : {Undefined, <<"asc">>}, page : PageTexts, pageSize : PageSizeTexts]

ListCalls ==
    { [fn |-> "listSkills", skills |-> skills, req |-> req, out |-> Null] :
        skills \in ListRegistries, req \in ListRequests }

CallListSkills ==
    /\ probe.fn = "listSkills"
    /\ probe.out = Null
    /\ probe' = [probe EXCEPT !.out = listSkills(probe.skills, probe.req)]
    /\ UNCHANGED <<verified, env, now, ticks, storageVars, cachedData, aggregationCaches, isRefreshing,
                   lastRefreshResult, refreshTimer, timers, calls, nextId, effects, faults>>

PureInit ==
    /\ QuietInit
    /\ probe \in FilterRepoCalls \cup ValidateCalls \cup EnrichCalls \cup ListCalls

PureNext ==
    \/ CallFilterRepoSkills
    \/ CallValidateScrapedData
    \/ CallEnrichSkills
    \/ CallListSkills

PureSpec == PureInit /\ [][PureNext]_vars

\* ------------------------------------------- registry/data.ts: aggregations

\* Array.prototype.sort with (a, b) => key(b) - key(a): stable, descending.
\* keys[k] is the key of list[k].
sortDescending(list, keys) ==
    LET n == Len(list)
        before(j, k) == keys[j] > keys[k] \/ (keys[j] = keys[k] /\ j < k)
        place(k) == 1 + Cardinality({j \in 1..n : j # k /\ before(j, k)})
    IN  [p \in 1..n |-> list[CHOOSE k \in 1..n : place(k) = p]]

RECURSIVE sumInstalls(_)
sumInstalls(skills) ==
    IF skills = <<>> THEN 0 ELSE Head(skills).installs + sumInstalls(Tail(skills))

\* The entries of a Map filled in one pass over the skills: one per key, in
\* the order the keys first appear.
firstIndexes(keys) ==
    SelectSeq([k \in 1..Len(keys) |-> k],
              LAMBDA k : \A j \in 1..(k - 1) : keys[j] # keys[k])

\* getSources() when nothing is cached.
computeSources(skillsData) ==
    LET keys == [k \in 1..Len(skillsData) |-> skillsData[k].source]
        firsts == firstIndexes(keys)
        entry(k) ==
            LET mine == SelectSeq(skillsData, LAMBDA sk : sk.source = keys[k])
            IN  [source |-> skillsData[k].source, owner |-> skillsData[k].owner,
                 repo |-> skillsData[k].repo, skillCount |-> Len(mine),
                 totalInstalls |-> sumInstalls(mine)]
        values == [p \in 1..Len(firsts) |-> entry(firsts[p])]
    IN  sortDescending(values, [p \in 1..Len(values) |-> values[p].totalInstalls])

\* getOwners() when nothing is cached.
computeOwners(skillsData) ==
    LET keys == [k \in 1..Len(skillsData) |-> skillsData[k].owner]
        firsts == firstIndexes(keys)
        entry(k) ==
            LET mine == SelectSeq(skillsData, LAMBDA sk : sk.owner = keys[k])
            IN  [owner |-> skillsData[k].owner, skillCount |-> Len(mine),
                 totalInstalls |-> sumInstalls(mine)]
        values == [p \in 1..Len(firsts) |-> entry(firsts[p])]
    IN  sortDescending(values, [p \in 1..Len(values) |-> values[p].totalInstalls])

\* getTopSkills(limit) when the limit has no cached list.
computeTopSkills(skillsData, limit) ==
    slice(sortDescending(skillsData,
                         [k \in 1..Len(skillsData) |-> skillsData[k].installs]),
          0, limit)

\* The limits the readers pass: server.ts asks for 10, the route for its query.
TopLimits == {1, 10}

AggregationReads == {"getSources", "getOwners", "getTopSkills"}

\* No aggregation has been read yet.
NoRead == [fn |-> "read", what |-> "none", limit |-> 0, answer |-> Null, from |-> Null]

\* getSources(), getOwners() or getTopSkills(limit): the cached list when there
\* is one, else the list computed from getSkills(), which loads synchronously
\* when the registry is empty.  `from` is the snapshot getSkills() would read.
ReadAggregation ==
    \E what \in AggregationReads, limit \in TopLimits :
        LET hit == CASE what = "getSources" -> cachedSources # Null
                     [] what = "getOwners" -> cachedOwners # Null
                     [] OTHER -> limit \in DOMAIN cachedTopSkills
            loaded == IF hit \/ cachedData # Null
                      THEN [threw |-> FALSE, data |-> cachedData]
                      ELSE loadSkillsData(fsData, bundledData)
            skillsData == loaded.data.skills
            answer == CASE what = "getSources" ->
                             IF hit THEN cachedSources ELSE computeSources(skillsData)
                        [] what = "getOwners" ->
                             IF hit THEN cachedOwners ELSE computeOwners(skillsData)
                        [] OTHER ->
                             IF hit THEN cachedTopSkills[limit]
                             ELSE computeTopSkills(skillsData, limit)
        IN  /\ what # "getTopSkills" => limit = 10
            /\ ~loaded.threw
            /\ cachedData' = loaded.data
            /\ cachedSources' = IF what = "getSources" THEN answer ELSE cachedSources
            /\ cachedOwners' = IF what = "getOwners" THEN answer ELSE cachedOwners
            /\ cachedTopSkills' =
                   IF what = "getTopSkills"
                   THEN [l \in DOMAIN cachedTopSkills \cup {limit} |->
                            IF l = limit THEN answer ELSE cachedTopSkills[l]]
                   ELSE cachedTopSkills
            /\ probe' = [probe EXCEPT !.what = what, !.limit = limit,
                                      !.answer = answer, !.from = loaded.data]
            /\ UNCHANGED <<verified, env, now, ticks, storageVars, isRefreshing,
                           lastRefreshResult, refreshTimer, timers, calls, nextId,
                           effects, faults>>

\* reloadData(): the synchronous load, then clearAggregationCaches().  A load
\* that throws leaves the module as it was.
reloadData ==
    LET loaded == loadSkillsData(fsData, bundledData)
    IN  /\ ~loaded.threw
        /\ cachedData' = loaded.data
        /\ cachedSources' = clearAggregationCaches.sources
        /\ cachedOwners' = clearAggregationCaches.owners
        /\ cachedTopSkills' = clearAggregationCaches.top
        /\ UNCHANGED <<probe, verified, env, now, ticks, storageVars, isRefreshing,
                       lastRefreshResult, refreshTimer, timers, calls, nextId,
                       effects, faults>>

RegistryInit == InitWith({LiveEnv}) /\ s3Data = S3Snap /\ fsData = FsSnap /\ probe = NoRead

RegistryNext ==
    \/ \E i \in Ids : ManualRefresh(i)
    \/ LiveAwaits
    \/ \E p \in pendingPuts : PutLands(p)
    \/ reloadData
    \/ ReadAggregation

RegistrySpec == RegistryInit /\ [][RegistryNext]_vars

\* ------------------------------------------------------------------ claims

Running == {i \in Ids : calls[i].pc \in RunningPcs}

Done(i) == calls[i].pc = "done"

\* The list handed to filterStaleSkills by invocation i.
FilterInput(i) == enrichSkills(calls[i].scrapedSkills)

Filtered(i) == calls[i].staleResult # Null

Validated(i) == calls[i].validation # Null

SnapshotWrites == {"saveToS3", "saveToFilesystem", "saveToBundled"}

snapshotVars == <<s3Data, fsData, bundledData, cachedData>>

C2_FlagReleased ==
    /\ (Running = {} => ~isRefreshing)
    /\ \A i \in Ids : (Done(i) /\ ~calls[i].overlapped) =>
          ("error" \in DOMAIN calls[i].result =>
              calls[i].result.error # <<"Refresh already in progress">>)

C2_Witness ==
    \E i, j \in Ids :
        /\ i < j
        /\ calls[i].pc = "retired"
        /\ lastRefreshResult.success = FALSE
        /\ lastRefreshResult.error = <<"Unexpected token in JSON">>
        /\ calls[j].pc = "scrape" /\ ~calls[j].overlapped

\* C3: a refresh whose validation result has valid=false returns success=false,
\* skipped=true, the validation result and the joined validation errors as its
\* error; it never builds or writes a snapshot and never reloads the registry,
\* and the step in which it returns leaves every stored snapshot and the
\* registry as they were.
C3_RejectedState ==
    \A i \in Ids : (Validated(i) /\ ~calls[i].validation.valid) =>
        /\ Done(i)
        /\ calls[i].result.success = FALSE
        /\ "skipped" \in DOMAIN calls[i].result /\ calls[i].result.skipped = TRUE
        /\ calls[i].result.validation = calls[i].validation
        /\ calls[i].result.error =
              <<"Validation failed: ">> \o join(calls[i].validation.errors, <<"; ">>)
        /\ calls[i].output = Null
        /\ effects[i] \cap (SnapshotWrites \cup {"reload", "seedS3"}) = {}

C3_RejectedStep ==
    \A i \in Ids :
        (calls[i].pc \in RunningPcs /\ Done(i)' /\ Validated(i)'
            /\ ~calls'[i].validation.valid)
        => UNCHANGED snapshotVars

C3_RejectionKeepsSnapshot == []C3_RejectedState /\ [][C3_RejectedStep]_vars

C3_Witness ==
    \E i \in Ids :
        /\ Done(i) /\ Validated(i) /\ ~calls[i].validation.valid
        /\ Len(calls[i].validation.errors) >= 2
        /\ s3Data # NoData /\ cachedData # Null

\* C4 as stated: a refresh that ends Rejected performs no storage write of any
\* kind, neither of the snapshot nor of the verification cache.
C4_NoWriteAtAll ==
    \A i \in Ids : (Done(i) /\ Validated(i) /\ ~calls[i].validation.valid) =>
        effects[i] = {}

\* C4 amended: a refresh that ends Rejected writes the canonical snapshot to no
\* backend; the only storage write it can make is the reconciler's save of the
\* verification cache to the remote store, which is started before validation.
C4_NoSnapshotWrite ==
    \A i \in Ids : (Done(i) /\ Validated(i) /\ ~calls[i].validation.valid) =>
        /\ effects[i] \subseteq {"saveValidationCacheToS3"}
        /\ \A p \in pendingPuts : p.by = i => p.kind = "cache"

C4_Witness ==
    \E i \in Ids :
        /\ Done(i) /\ Validated(i) /\ ~calls[i].validation.valid
        /\ effects[i] = {"saveValidationCacheToS3"}
        /\ s3Cache # EmptyCache

\* C5: in the step in which scrapeSkills throws, the invocation returns (it does
\* not throw) a result with success=false, the exception message as error and
\* no skipped flag; lastRefreshResult becomes that result, and the stored
\* snapshots, the verification cache and the registry are unchanged.
C5_ScrapeFailureStep ==
    \A i \in Ids :
        (calls[i].pc = "scrape" /\ Done(i)' /\ ~Filtered(i)')
        => /\ calls'[i].result.success = FALSE
           /\ \E m \in ScrapeErrors : calls'[i].result.error = <<m>>
           /\ "skipped" \notin DOMAIN calls'[i].result
           /\ "validation" \notin DOMAIN calls'[i].result
           /\ lastRefreshResult' = calls'[i].result
           /\ UNCHANGED <<snapshotVars, s3Cache, pendingPuts>>
           /\ effects'[i] = {}

C5_ScrapeFailure == [][C5_ScrapeFailureStep]_vars

C5_Witness ==
    \E i \in Ids :
        /\ Done(i) /\ ~Filtered(i) /\ ~calls[i].overlapped
        /\ calls[i].result.error = <<"Could not find allTimeSkills in page">>
        /\ lastRefreshResult = calls[i].result
        /\ cachedData # Null

\* C6 as stated: the registry is reloaded by a refresh only after that run's
\* snapshot was written successfully to at least one backend.
C6_ReloadAfterPersist ==
    \A i \in Ids : "reload" \in effects[i] => effects[i] \cap SnapshotWrites # {}

\* C7 as stated: after an accepted refresh (success=true), also when one backend
\* write failed and another succeeded, the registry holds the run's snapshot.
C7_RegistryHoldsAccepted ==
    \A i \in Ids :
        (Done(i) /\ "success" \in DOMAIN calls[i].result /\ calls[i].result.success
            /\ effects[i] \cap SnapshotWrites # {})
        => cachedData = calls[i].output

\* C8: without GITHUB_TOKEN filterStaleSkills answers its input unchanged, with
\* removed=0, no removed skills, reposChecked=0 and skipped=true; it fetches
\* nothing and neither reads nor writes the verification cache.
C8_NoTokenNoOp ==
    \A i \in Ids : (Filtered(i) /\ ~env.GITHUB_TOKEN) =>
        /\ calls[i].staleResult =
              [filtered |-> FilterInput(i), removed |-> 0, removedSkills |-> <<>>,
               reposChecked |-> 0, skipped |-> TRUE]
        /\ calls[i].fetched = EmptyCache
        /\ ~calls[i].cacheRead
        /\ \A p \in pendingPuts : ~(p.kind = "cache" /\ p.by = i)
        /\ "saveValidationCacheToS3" \notin effects[i]

C8_Witness ==
    \E i \in Ids :
        /\ Filtered(i) /\ ~env.GITHUB_TOKEN /\ env.S3_BUCKET
        /\ Len(calls[i].staleResult.filtered) = 4

C10_EmptyDirsDropAll ==
    \A i \in Ids : Filtered(i) =>
        \A src \in DOMAIN calls[i].fetched :
            (calls[i].fetched[src].ok /\ calls[i].fetched[src].dirs = {}) =>
                /\ byRepo(calls[i].staleResult.filtered, src) = <<>>
                /\ byRepo(calls[i].staleResult.removedSkills, src) =
                      [k \in 1..Len(byRepo(FilterInput(i), src)) |->
                          [skillId |-> byRepo(FilterInput(i), src)[k].skillId,
                           source |-> src]]

C10_Witness ==
    \E i \in Ids :
        /\ Filtered(i)
        /\ SrcA \in DOMAIN calls[i].fetched
        /\ calls[i].fetched[SrcA].ok /\ calls[i].fetched[SrcA].dirs = {}
        /\ Len(calls[i].staleResult.removedSkills) = 3
        /\ Len(calls[i].staleResult.filtered) = 1

\* A directory of `dirs` is named exactly as the skill's skillId or its name.
Matches(skill, dirs) == skill.skillId \in dirs \/ skill.name \in dirs

FilterRepoAnswered == probe # Null /\ probe.fn = "filterRepoSkills" /\ probe.out # Null

\* C11: for a repository with a non-empty directory set D and skills S with
\* |D| >= |S|, filterRepoSkills keeps every skill, in order, and reports none
\* removed, whether or not any skillId or name is an element of D.
C11_EnoughDirsKeepAll ==
    (FilterRepoAnswered /\ probe.actualDirs # {}
        /\ Cardinality(probe.actualDirs) >= Len(probe.repoSkills))
    => /\ probe.out.keptSkills = probe.repoSkills
       /\ probe.out.droppedSkills = <<>>

C11_Witness ==
    /\ FilterRepoAnswered
    /\ probe.actualDirs = {<<"z">>, <<"c", "-", "d">>}
    /\ Len(probe.repoSkills) = 2
    /\ \A k \in 1..2 : ~Matches(probe.repoSkills[k], probe.actualDirs)
    /\ Len(probe.out.keptSkills) = 2

C13_OneFetchPerTTL ==
    \A i \in Ids : \A src \in calls[i].inflight :
        src \in DOMAIN verified => now - verified[src] >= VALIDATION_TTL_MS

\* C14: in the step in which a tree fetch of a source succeeds, the cache entry
\* of that source becomes the fetched directory set with validatedAt equal to
\* the current time, whether or not a skill of the source is dropped; the entry
\* is still that when the reconciler returns and hands the cache to the save.
C14_FreshFetchStep ==
    \A i \in Ids : \A src \in calls[i].inflight :
        (src \notin calls'[i].inflight /\ src \in DOMAIN calls'[i].fetched
            /\ calls'[i].fetched[src].ok)
        => /\ src \in DOMAIN calls'[i].cache
           /\ calls'[i].cache[src] = [validatedAt |-> toISOString(now),
                                      dirs |-> calls'[i].fetched[src].dirs]

C14_FreshFetchState ==
    \A i \in Ids : \A src \in DOMAIN calls[i].fetched :
        calls[i].fetched[src].ok =>
            /\ src \in DOMAIN calls[i].cache
            /\ calls[i].cache[src] = [validatedAt |-> toISOString(calls[i].filterNow),
                                      dirs |-> calls[i].fetched[src].dirs]
            /\ \A p \in pendingPuts : (p.kind = "cache" /\ p.by = i) =>
                  p.payload[src] = calls[i].cache[src]

C14_FreshFetchUpdatesCache == []C14_FreshFetchState /\ [][C14_FreshFetchStep]_vars

C14_Witness ==
    \E i \in Ids :
        /\ Filtered(i)
        /\ DOMAIN calls[i].fetched = {SrcA, SrcB}
        /\ calls[i].fetched[SrcA] = FetchOk({})
        /\ calls[i].fetched[SrcB] = FetchOk({<<"a">>, <<"c">>})
        /\ calls[i].staleResult.removed = 3
        /\ calls[i].cache[SrcA].dirs = {}
        /\ calls[i].cache[SrcB].dirs = {<<"a">>, <<"c">>}
        /\ \E p \in pendingPuts : p.kind = "cache" /\ p.by = i

\* C15: at most 10 verification fetches are in flight at once; the fetches in
\* flight are those of the current batch of 10, every repository of an earlier
\* batch has been answered, and no repository of a later batch has been
\* fetched yet.
C15_BatchesOfTen ==
    \A i \in Ids :
        LET r == calls[i].reposToCheck
            b == calls[i].batchStart
            before == {r[k] : k \in 1..Min(b, Len(r))}
            current == {r[k] : k \in (b + 1)..Min(b + 10, Len(r))}
        IN  /\ Cardinality(calls[i].inflight) <= 10
            /\ calls[i].inflight \subseteq current
            /\ calls[i].inflight # {} => before \subseteq DOMAIN calls[i].fetched
            /\ DOMAIN calls[i].fetched \subseteq before \cup current

C15_Witness ==
    \E i \in Ids :
        /\ calls[i].pc = "fetch"
        /\ calls[i].batchStart = 10
        /\ Cardinality(calls[i].inflight) = 2
        /\ Cardinality(DOMAIN calls[i].fetched) = 10
        /\ \E src \in DOMAIN calls[i].fetched : ~calls[i].fetched[src].ok

\* validateScrapedData was called and has answered.
ValidateAnswered == probe # Null /\ probe.fn = "validateScrapedData" /\ probe.out # Null

\* The messages of the answer that contain the given piece of text.
ErrorsWith(text) ==
    {k \in 1..Len(probe.out.errors) : text \in Range(probe.out.errors[k])}

WarningsWith(text) ==
    {k \in 1..Len(probe.out.warnings) : text \in Range(probe.out.warnings[k])}

SkillFloorText == "This likely indicates a scraping failure."

SourceFloorText == "This likely indicates incomplete data."

EmptyText == "No skills scraped. The page structure may have changed."

SampleText == " sampled skills have missing required fields. "

DropText == "Skill count dropped by "

CeilingText == "This exceeds the maximum allowed drop of "

InstallsText == "Total installs dropped significantly. This may indicate data issues."

NamesText == "High duplicate name ratio detected ("

HardTexts == {SkillFloorText, SourceFloorText, EmptyText, SampleText, CeilingText}

SoftTexts == {DropText, InstallsText, NamesText}

\* The arguments of the call, read independently of the answer.
ArgCount == Len(probe.skills)

ArgOption(f, default) ==
    IF f \in DOMAIN probe.options THEN probe.options[f] ELSE default

ArgPrevCount ==
    IF "previousData" \in DOMAIN probe.options /\ probe.options.previousData # Null
    THEN Len(probe.options.previousData.skills)
    ELSE 0

ArgInstalls == SumSeq([k \in 1..ArgCount |-> probe.skills[k].installs])

ArgPrevInstalls ==
    SumSeq([k \in 1..ArgPrevCount |-> probe.options.previousData.skills[k].installs])

ArgNames ==
    {IF "name" \in DOMAIN probe.skills[k] THEN probe.skills[k].name ELSE Undefined :
        k \in 1..ArgCount}

ArgSources ==
    {IF "source" \in DOMAIN probe.skills[k] THEN probe.skills[k].source ELSE Undefined :
        k \in 1..ArgCount}

\* Each soft condition, when it holds, puts one message in warnings and none
\* in errors.
C16_SoftConditions ==
    /\ (ArgPrevCount > 0
         /\ (ArgPrevCount - ArgCount) * 100 > 10 * ArgPrevCount
         /\ (ArgPrevCount - ArgCount) * 100
                < ArgOption("maxDropPercentage", 50) * ArgPrevCount)
        => /\ Cardinality(WarningsWith(DropText)) = 1
           /\ ErrorsWith(DropText) = {}
    /\ (ArgPrevCount > 0 /\ 2 * ArgInstalls < ArgPrevInstalls)
        => /\ Cardinality(WarningsWith(InstallsText)) = 1
           /\ ErrorsWith(InstallsText) = {}
    /\ (10 * Cardinality(ArgNames) < 9 * ArgCount)
        => /\ Cardinality(WarningsWith(NamesText)) = 1
           /\ ErrorsWith(NamesText) = {}

\* C16: the answer of validateScrapedData has valid = true exactly when its
\* errors list is empty; every error is one of the five hard conditions; and
\* the soft conditions (a drop between 10% and the ceiling, install total below
\* half of the previous one, fewer distinct names than 90% of the skills) put
\* their message in warnings only, so that a warning never changes valid.
C16_ValidIffNoErrors ==
    ValidateAnswered =>
        /\ probe.out.valid = (Len(probe.out.errors) = 0)
        /\ \A k \in 1..Len(probe.out.errors) :
               Range(probe.out.errors[k]) \cap HardTexts # {}
        /\ \A k \in 1..Len(probe.out.warnings) :
               /\ Range(probe.out.warnings[k]) \cap HardTexts = {}
               /\ Range(probe.out.warnings[k]) \cap SoftTexts # {}
        /\ C16_SoftConditions

C16_Witness ==
    /\ ValidateAnswered
    /\ probe.out.valid
    /\ WarningsWith(DropText) # {}
    /\ WarningsWith(InstallsText) # {}
    /\ WarningsWith(NamesText) # {}

\* C17: a list of zero skills is answered with valid = false and the error
\* "No skills scraped", whatever the floors (minSkillCount = 0 and
\* minSourceCount = 0 included) and whether or not previous data is supplied.
C17_EmptyIsInvalid ==
    (ValidateAnswered /\ ArgCount = 0) =>
        /\ ~probe.out.valid
        /\ Cardinality(ErrorsWith(EmptyText)) = 1

C17_Witness ==
    /\ ValidateAnswered
    /\ ArgCount = 0
    /\ ArgOption("minSkillCount", 1000) = 0
    /\ ArgOption("minSourceCount", 100) = 0
    /\ ArgPrevCount > 0
    /\ ~probe.out.valid
    /\ ErrorsWith(EmptyText) # {}
    /\ ErrorsWith(SkillFloorText) = {}
    /\ ErrorsWith(SourceFloorText) = {}

\* C18: with a previous snapshot of P > 0 skills and a candidate of C skills,
\* a drop (P - C) / P * 100 above maxDropPercentage (default 50) gives one drop
\* error and valid = false; otherwise a drop above 10 gives exactly one drop
\* warning and no drop error; otherwise neither. Without a previous snapshot,
\* or with an empty one, there is no drop message at all.
C18_DropRule ==
    ValidateAnswered =>
        LET P == ArgPrevCount
            C == ArgCount
            ceiling == ArgOption("maxDropPercentage", 50)
        IN  IF P > 0 /\ (P - C) * 100 > ceiling * P
            THEN /\ Cardinality(ErrorsWith(CeilingText)) = 1
                 /\ WarningsWith(DropText) = {}
                 /\ ~probe.out.valid
            ELSE IF P > 0 /\ (P - C) * 100 > 10 * P
            THEN /\ Cardinality(WarningsWith(DropText)) = 1
                 /\ ErrorsWith(DropText) = {}
            ELSE /\ WarningsWith(DropText) = {}
                 /\ ErrorsWith(DropText) = {}

\* C19: validateScrapedData adds the skill-count error exactly when the number
\* of skills is strictly below minSkillCount (1000 when the option is absent)
\* and the source-count error exactly when the number of distinct sources is
\* strictly below minSourceCount (100 when absent); counts equal to the floors
\* pass, and each message names the floor that was applied.
C19_StrictFloors ==
    ValidateAnswered =>
        LET minSkillCount == ArgOption("minSkillCount", 1000)
            minSourceCount == ArgOption("minSourceCount", 100)
            skillErrors == ErrorsWith(SkillFloorText)
            sourceErrors == ErrorsWith(SourceFloorText)
        IN  /\ Cardinality(skillErrors) = IF ArgCount < minSkillCount THEN 1 ELSE 0
            /\ Cardinality(sourceErrors) =
                   IF Cardinality(ArgSources) < minSourceCount THEN 1 ELSE 0
            /\ \A k \in skillErrors :
                   probe.out.errors[k][4] = ToString(minSkillCount)
            /\ \A k \in sourceErrors :
                   probe.out.errors[k][4] = ToString(minSourceCount)
            /\ (skillErrors # {} \/ sourceErrors # {}) => ~probe.out.valid

C19_Witness ==
    /\ ValidateAnswered
    /\ DOMAIN probe.options = {"minSkillCount", "minSourceCount"}
    /\ probe.options.minSkillCount = 2
    /\ probe.options.minSourceCount = 2
    /\ ArgCount = 2
    /\ Cardinality(ArgSources) = 2
    /\ probe.out.valid

\* The positions of the call's list whose record has an empty or absent
\* source, skillId or name.
ArgMalformed ==
    {k \in 1..ArgCount :
        \E f \in {"source", "skillId", "name"} :
            f \notin DOMAIN probe.skills[k] \/ Len(probe.skills[k][f]) = 0}

\* C20: validateScrapedData looks at the first min(100, n) records only and
\* adds the 'missing required fields' error exactly when more than 10% of
\* those records have an empty or absent source, skillId or name; records
\* after the first 100 never cause the error.
C20_SampleOfFirstHundred ==
    ValidateAnswered =>
        LET sampleSize == IF ArgCount < 100 THEN ArgCount ELSE 100
            sampled == ArgMalformed \cap 1..sampleSize
        IN  /\ Cardinality(ErrorsWith(SampleText)) =
                   IF 10 * Cardinality(sampled) > sampleSize THEN 1 ELSE 0
            /\ \A k \in ErrorsWith(SampleText) :
                   /\ probe.out.errors[k][1] = ToString(Cardinality(sampled))
                   /\ probe.out.errors[k][3] = ToString(sampleSize)

C20_Witness ==
    /\ ValidateAnswered
    /\ ArgCount = 120
    /\ ArgMalformed = 101..120
    /\ ErrorsWith(SampleText) = {}
    /\ probe.out.valid

\* C21: every periodic refresh timer that exists, however it was started
\* (startRefreshScheduler, createSkillsApiServer with autoRefresh and
\* REFRESH_INTERVAL, POST /admin/scheduler/start?interval=N), has an interval
\* of at least 5 minutes.
C21_IntervalFloor ==
    \A h \in timers : h.intervalMs # NaN /\ h.intervalMs >= 5 * 60 * 1000

\* The scheduler calls that start a timer and those that stop one.
StartFns == {"startRefreshScheduler", "createSkillsApiServer", "POST /scheduler/start"}

StopFns == {"stopRefreshScheduler", "POST /scheduler/stop"}

C22_State ==
    /\ Cardinality(timers) <= 1
    /\ isSchedulerRunning <=> timers # {}
    /\ refreshTimer # Null => timers = {refreshTimer}

C22_Step ==
    /\ (refreshTimer # Null /\ refreshTimer' # Null)
        => (refreshTimer' = refreshTimer /\ timers' = timers)
    /\ (probe' # probe /\ probe'.fn \in StartFns /\ probe'.running)
        => UNCHANGED <<refreshTimer, timers, calls, nextId, isRefreshing>>
    /\ (probe' # probe /\ probe'.fn \in StopFns)
        => /\ refreshTimer' = Null
           /\ timers' = {}
           /\ UNCHANGED <<calls, nextId, isRefreshing>>
    /\ nextId' # nextId
        => (timers # {} \/ (refreshTimer = Null /\ refreshTimer' # Null))

\* C22: at most one periodic timer exists and isSchedulerRunning() is true
\* exactly when it does; a start while a timer is active changes nothing and
\* keeps the timer and its interval; a stop clears the timer, and is a no-op
\* when none is active; with no timer active, no timer tick starts a refresh.
C22_AtMostOneTimer == []C22_State /\ [][C22_Step]_vars

C22_Witness ==
    /\ probe # Null
    /\ probe.fn = "startRefreshScheduler"
    /\ probe.running
    /\ probe.arg = <<ToString(60 * 1000)>>
    /\ timers = {refreshTimer}
    /\ refreshTimer.intervalMs = 30 * 60 * 1000

EnrichAnswered == probe # Null /\ probe.fn = "enrichSkills" /\ probe.out # Null

\* A source that is an owner and a repository separated by one '/'.
WellFormedSource(source) ==
    /\ Cardinality({j \in 1..Len(source) : source[j] = "/"}) = 1
    /\ source[1] # "/"
    /\ source[Len(source)] # "/"

\* C23: every enriched skill has owner + "/" + repo equal to its source, and
\* a skill whose source is not an owner and a repository separated by one
\* '/' has owner and repo both empty.
C23_OwnerRepoIsSource ==
    EnrichAnswered =>
        \A k \in 1..Len(probe.out.enriched) :
            LET skill == probe.out.enriched[k]
            IN  IF WellFormedSource(probe.skills[k].source)
                THEN skill.owner \o <<"/">> \o skill.repo = skill.source
                ELSE skill.owner = <<>> /\ skill.repo = <<>>

LoadAnswered == probe # Null /\ probe.fn = "loadSkillsDataAsync" /\ probe.pc = "done"

\* C24: loadSkillsDataAsync returns the remote store's snapshot when the
\* store is configured and its read yields data; otherwise the local file's
\* snapshot when the file exists and parses; otherwise the bundled dataset,
\* or an empty dataset when nothing is bundled.
C24_ReadPriority ==
    LoadAnswered =>
        LET b == probe.before
        IN  /\ probe.got # NoData => (isS3Configured /\ probe.got = b.s3)
            /\ IF probe.got # NoData
               THEN ~probe.threw /\ probe.out = b.s3
               ELSE IF b.fs \notin {NoData, Corrupt}
               THEN ~probe.threw /\ probe.out = b.fs
               ELSE IF b.bundled = Corrupt
               THEN probe.threw
               ELSE IF b.bundled = NoData
               THEN ~probe.threw /\ probe.out = EmptyDataset(now)
               ELSE ~probe.threw /\ probe.out = b.bundled

C24_Witness ==
    /\ LoadAnswered
    /\ probe.before = [s3 |-> S3Snap, fs |-> FsSnap, bundled |-> BundledSnap]
    /\ probe.got = S3Snap
    /\ probe.out = S3Snap

SaveAnswered == probe # Null /\ probe.fn = "saveSkillsDataAsync" /\ probe.pc = "done"

\* The step in which a call of saveSkillsDataAsync returns.
SaveReturns ==
    /\ probe' # probe
    /\ probe'.fn = "saveSkillsDataAsync"
    /\ probe'.pc = "done"

C25_Step ==
    SaveReturns =>
        LET out == probe'.out
            data == probe'.data
        IN  /\ ~probe'.threw
            /\ out.s3 => (isS3Configured /\ s3Data' = data)
            /\ ~out.s3 => s3Data' = s3Data
            /\ out.filesystem =>
                  IF getLocalDataDir THEN fsData' = data /\ bundledData' = bundledData
                  ELSE bundledData' = data /\ fsData' = fsData
            /\ ~out.filesystem => (fsData' = fsData /\ bundledData' = bundledData)

\* C25: when saveSkillsDataAsync returns, no exception has been raised, the
\* s3 flag is true exactly when the remote document now holds the data and
\* the filesystem flag exactly when the local file does; each write is made
\* whatever the other's outcome.
C25_IndependentWrites == [][C25_Step]_vars

C25_Witness ==
    /\ SaveAnswered
    /\ isS3Configured
    /\ getLocalDataDir
    /\ probe.out = [s3 |-> FALSE, filesystem |-> TRUE]
    /\ fsData = probe.data
    /\ s3Data = probe.before.s3
    /\ s3Data # probe.data

\* A step that replaces a snapshot document.
C26_Step ==
    /\ s3Data' # s3Data =>
          /\ \E i \in Ids : /\ calls[i].pc = "saveS3"
                             /\ calls[i].validation.valid
                             /\ s3Data' = calls[i].output
          /\ s3Data # NoData =>
                getTime(s3Data'.scrapedAt) >= getTime(s3Data.scrapedAt)
    /\ (fsData' # fsData \/ bundledData' # bundledData) =>
          \E i \in Ids : /\ calls[i].pc \in RunningPcs
                         /\ calls'[i].validation # Null
                         /\ calls'[i].validation.valid
                         /\ (IF getLocalDataDir THEN fsData' ELSE bundledData')
                                = calls'[i].output

\* C26: the snapshot document of each backend is replaced only by the persist
\* step of an accepted refresh, with that refresh's snapshot, and never by a
\* read or reload path; a stored snapshot is never replaced by an older one.
C26_OnlyPersistWrites == [][C26_Step]_vars

\* The step in which a call of loadSkillsDataAsync returns.
LoadReturns ==
    /\ probe' # probe
    /\ probe'.fn = "loadSkillsDataAsync"
    /\ probe'.pc = "done"

C27_State ==
    (LoadAnswered /\ probe.started # {}) =>
            /\ isS3Configured
            /\ probe.before.s3 \in {NoData, Corrupt}
            /\ probe.started = {SeedPut(1, probe.out)}

C27_Step ==
    /\ LoadReturns =>
          /\ s3Data' = s3Data
          /\ probe'.started \subseteq pendingPuts'
          /\ (isS3Configured /\ s3Data = NoData /\ ~probe'.threw)
                => SeedPut(1, probe'.out) \in pendingPuts'
    /\ (\E p \in pendingPuts : pendingPuts' = pendingPuts \ {p}) => probe' = probe

\* C27: loadSkillsDataAsync starts a seeding write to the remote store only
\* when the store is configured and holds no snapshot, with the data it
\* returns; it returns with that write still pending, and the write's later
\* success or failure leaves the returned data as it was.
C27_SeedOnlyWhenEmpty == []C27_State /\ [][C27_Step]_vars

\* Invocation i was refused because a refresh was in progress.
Refused(i) ==
    /\ calls[i].pc = "done"
    /\ "error" \in DOMAIN calls[i].result
    /\ calls[i].result.error = <<"Refresh already in progress">>

C28_State ==
    (\A i \in Ids : calls[i].pc \in {"new"} \cup RunningPcs \/ Refused(i))
        => lastRefreshResult = Null

C28_Step ==
    /\ \A i \in Ids :
          (calls[i].pc \in RunningPcs /\ calls'[i].pc = "done")
              => lastRefreshResult' = calls'[i].result
    /\ \A i \in Ids :
          (calls[i].pc = "new" /\ calls'[i].pc = "done")
              => lastRefreshResult' = lastRefreshResult
    /\ lastRefreshResult' # lastRefreshResult
          => \E i \in Ids : calls[i].pc \in RunningPcs /\ calls'[i].pc = "done"

\* C28: the last refresh result is null until a run has completed; every
\* completed run (accepted, rejected or failed) replaces it with its own
\* result; nothing else changes it, and an invocation refused because a
\* refresh is in progress leaves it as it was.
C28_LastResultIsLatestRun == []C28_State /\ [][C28_Step]_vars

C28_Witness ==
    \E i, j \in Ids :
        /\ Refused(j)
        /\ calls[i].pc = "done"
        /\ ~Refused(i)
        /\ lastRefreshResult = calls[i].result
        /\ lastRefreshResult # calls[j].result

\* The four shapes of the result of a returned invocation.
Accepted(r) ==
    /\ "success" \in DOMAIN r
    /\ r.success
    /\ {"validation", "savedTo"} \subseteq DOMAIN r
    /\ DOMAIN r \cap {"error", "skipped"} = {}

Rejected(r) ==
    /\ "success" \in DOMAIN r
    /\ ~r.success
    /\ {"validation", "skipped", "error"} \subseteq DOMAIN r
    /\ r.skipped
    /\ "savedTo" \notin DOMAIN r

Failed(r) ==
    /\ "success" \in DOMAIN r
    /\ ~r.success
    /\ "error" \in DOMAIN r
    /\ r.error # <<"Refresh already in progress">>
    /\ DOMAIN r \cap {"validation", "skipped", "savedTo"} = {}

Conflict(r) ==
    /\ "error" \in DOMAIN r
    /\ r.error = <<"Refresh already in progress">>
    /\ "success" \in DOMAIN r => ~r.success
    /\ DOMAIN r \cap {"validation", "skipped", "savedTo"} = {}

C29_State ==
    /\ \A i \in Ids :
          calls[i].pc = "done" =>
              LET r == calls[i].result
              IN  Cardinality({k \in 1..4 :
                      CASE k = 1 -> Accepted(r) [] k = 2 -> Rejected(r)
                        [] k = 3 -> Failed(r) [] OTHER -> Conflict(r)}) = 1
    /\ isRefreshing <=> Running # {}
    /\ Cardinality(Running) <= 1

C29_Step ==
    \A i \in Ids :
        /\ (calls[i].pc \in RunningPcs /\ calls'[i].pc = "done")
              => (~Conflict(calls'[i].result) /\ ~isRefreshing')
        /\ (calls[i].pc = "new" /\ calls'[i].pc = "done")
              => (Conflict(calls'[i].result) /\ isRefreshing /\ isRefreshing')
        /\ (calls[i].pc \in RunningPcs) => (calls'[i].pc \in RunningPcs \cup {"done"})

ValidateRepeated == ValidateAnswered /\ probe.again # Null

C30_State == ValidateRepeated => probe.again = probe.out

C30_Step ==
    (probe # Null /\ probe.fn = "validateScrapedData") =>
        /\ probe'.skills = probe.skills
        /\ probe'.options = probe.options
        /\ UNCHANGED <<storageVars, cachedData, aggregationCaches, isRefreshing, lastRefreshResult, now>>

ListAnswered == probe # Null /\ probe.fn = "listSkills" /\ probe.out # Null

\* The filtered, sorted list of the request, by a direct description: the
\* skills of the registry that pass the three filters, ordered by the
\* requested key.
ListMatches ==
    LET req == probe.req
    IN  sortSkills(filterSkills(probe.skills,
                                [query |-> req.query, owner |-> req.owner, repo |-> req.repo]),
                   orElse(req.sortBy, <<"installs">>), orElse(req.sortOrder, <<"desc">>))

ListDefaulted == parseInt(orElse(probe.req.pageSize, <<"20">>)) \in {0, NaN}

\* C31: the effective page is at least 1 and the effective page size is in
\* 1..100, 20 when the parameter is absent, zero or not a number; the answer
\* holds elements (page-1)*pageSize up to page*pageSize of the filtered,
\* sorted list, total is its length and totalPages = ceil(total / pageSize).
C31_Pagination ==
    ListAnswered =>
        LET out == probe.out
        IN  /\ out.page >= 1
            /\ out.pageSize \in 1..100
            /\ ListDefaulted => out.pageSize = 20
            /\ Len(out.skills) <= out.pageSize
            /\ out.total = Len(ListMatches)
            /\ out.skills = [k \in 1..Len(out.skills) |->
                                ListMatches[(out.page - 1) * out.pageSize + k]]
            /\ Len(out.skills) =
                  Max(0, Min(out.page * out.pageSize, out.total) - (out.page - 1) * out.pageSize)
            /\ out.totalPages * out.pageSize >= out.total
            /\ (out.totalPages - 1) * out.pageSize < out.total \/ out.total = 0
            /\ (out.total = 0) => (out.totalPages = 0)

C31_Witness ==
    /\ ListAnswered
    /\ probe.req.pageSize = <<"-", "1">>
    /\ probe.req.page = <<"3">>
    /\ probe.out.pageSize = 1
    /\ Len(probe.out.skills) = 1
    /\ probe.out.total = 4

\* The messages of a validation that compare with the previous snapshot.
ComparisonTexts == {DropText, CeilingText, InstallsText}

Compared(v) ==
    \E text \in ComparisonTexts :
        \/ \E k \in 1..Len(v.errors) : text \in Range(v.errors[k])
        \/ \E k \in 1..Len(v.warnings) : text \in Range(v.warnings[k])

C32_State ==
    \A i \in Ids :
        (calls[i].validation # Null /\ calls[i].previousData = Null)
            => ~Compared(calls[i].validation)

C32_Step ==
    \A i \in Ids :
        (/\ calls[i].pc = "new"
         /\ calls'[i].pc # "new"
         /\ ~isRefreshing
         /\ loadSkillsData(fsData, bundledData).threw)
            => /\ calls'[i].pc = "scrape"
               /\ calls'[i].previousData = Null
               /\ isRefreshing'

\* C32: a refresh that starts while loading the previous snapshot throws goes
\* on to the scrape with no previous data, and the validation of a run
\* without previous data carries no drop or install comparison.
C32_PreviousLoadIsBestEffort == []C32_State /\ [][C32_Step]_vars

\* Such a run ends Accepted.
C32_Witness ==
    \E i \in Ids :
        /\ calls[i].pc = "done"
        /\ calls[i].previousData = Null
        /\ calls[i].validation # Null
        /\ Accepted(calls[i].result)

C33_Step ==
    \A i \in Ids :
        (calls[i].pc = "new" /\ calls'[i].pc = "done")
            => /\ isRefreshing /\ isRefreshing'
               /\ UNCHANGED <<lastRefreshResult, storageVars, cachedData, aggregationCaches, verified, faults>>
               /\ \A j \in Ids \ {i} : calls'[j] = calls[j] /\ effects'[j] = effects[j]

\* C33: the step of an invocation refused by the entry guard leaves the flag
\* set and changes neither the last result, the stored snapshots, the
\* verification cache, the registry nor the record of the running refresh.
C33_RefusalTouchesNothing == [][C33_Step]_vars

\* A refused invocation next to the refresh that is still running.
C33_Witness ==
    \E i, j \in Ids :
        /\ Refused(i)
        /\ calls[j].pc \in {"saveS3", "reloadS3"}
        /\ isRefreshing

\* The ETag a full response would carry now.
CurrentEtag == etagOf(cachedData.scrapedAt)

Completes(i) == calls[i].pc \in RunningPcs /\ calls'[i].pc = "done"

C34_State ==
    (probe.status # 0 /\ ~endsWith(probe.path, "/files") /\ ~endsWith(probe.path, "/content"))
        => /\ (probe.status = 304) <=> (probe.sent = etagOf(probe.served))
           /\ (probe.status # 304) => (probe.status = 200 /\ probe.etag = etagOf(probe.served))

C34_Step ==
    \A i \in Ids :
        /\ (Completes(i) /\ ~Accepted(calls'[i].result)) => CurrentEtag' = CurrentEtag
        /\ (Completes(i) /\ Accepted(calls'[i].result)
              /\ getTime(cachedData.scrapedAt) < calls[i].startTime)
              => CurrentEtag' # CurrentEtag

\* C34: on the routes other than /files and /content the ETag is the quoted
\* scrapedAt of the registry's snapshot and a request that sends it is
\* answered 304; a rejected or failed refresh leaves the ETag as it was, and
\* an accepted refresh changes it, so that an ETag issued before is answered
\* with the full response.
C34_EtagFollowsRegistry == []C34_State /\ [][C34_Step]_vars

\* The number of times an element occurs in a sequence.
Occurrences(seq, e) == Cardinality({k \in 1..Len(seq) : seq[k] = e})

\* What removedSkills keeps of a skill.
Removal(skill) == [skillId |-> skill.skillId, source |-> skill.source]

Removals(skills) == [k \in 1..Len(skills) |-> Removal(skills[k])]

\* The reconciler's input of a run and its answer, once it has answered
\* without skipping.
Reconciled(i) == calls[i].staleResult # Null /\ ~calls[i].staleResult.skipped

ReconcilerInput(i) == enrichSkills(calls[i].scrapedSkills)

\* C35: the answer of a reconciler that did not skip partitions its input:
\* the surviving skills are input skills, every input skill is either among
\* them or, as its skillId and source, among removedSkills, each as often as
\* it occurs in the input, and removed = |removedSkills| = |input| - |filtered|.
C35_ReconcilerPartitions ==
    \A i \in Ids :
        Reconciled(i) =>
            LET r == calls[i].staleResult
                input == ReconcilerInput(i)
            IN  /\ \A e \in Range(r.filtered) :
                      Occurrences(r.filtered, e) <= Occurrences(input, e)
                /\ \A e \in Range(Removals(input)) \cup Range(r.removedSkills) :
                      Occurrences(Removals(input), e) =
                          Occurrences(Removals(r.filtered), e) + Occurrences(r.removedSkills, e)
                /\ Range(r.filtered) \subseteq Range(input)
                /\ r.removed = Len(r.removedSkills)
                /\ Len(r.filtered) + r.removed = Len(input)

\* A reconciler answer that kept some skills and removed others.
C35_Witness ==
    \E i \in Ids :
        /\ Reconciled(i)
        /\ calls[i].staleResult.removed > 0
        /\ calls[i].staleResult.filtered # <<>>

\* The counts of a snapshot agree with its list of skills.
Consistent(data) ==
    /\ data.totalSkills = Len(data.skills)
    /\ data.totalSources = Cardinality({data.skills[k].source : k \in 1..Len(data.skills)})
    /\ data.totalOwners = Cardinality({data.skills[k].owner : k \in 1..Len(data.skills)})

\* The snapshot a run has persisted: the run passed validation and at least
\* one write of its output succeeded.
Persisted(i) ==
    /\ calls[i].output # Null
    /\ calls[i].savedTo # Null
    /\ calls[i].savedTo.s3 \/ calls[i].savedTo.filesystem

\* C36: in every snapshot persisted by an accepted refresh totalSkills is the
\* number of skills, totalSources the number of distinct sources and
\* totalOwners the number of distinct owners among its skills, also when the
\* reconciler removed skills.
C36_SnapshotIsConsistent ==
    /\ \A i \in Ids : Persisted(i) => Consistent(calls[i].output)
    /\ \A doc \in {s3Data, fsData} \ {NoData, Corrupt} : Consistent(doc)

\* C37: a returned result with success=true carries savedTo with at least one
\* backend written; a run all of whose writes failed does not report success.
C37_SuccessMeansWritten ==
    \A i \in Ids :
        (calls[i].pc = "done" /\ "success" \in DOMAIN calls[i].result /\ calls[i].result.success)
            => (calls[i].result.savedTo.s3 \/ calls[i].result.savedTo.filesystem)

\* What loadSkillsDataAsync would answer now for invocation i.
Authoritative(i) ==
    loadSkillsDataAsync(i, Ctx(i), IF isS3Configured THEN loadFromS3(s3Data) ELSE NoData)

C38_Step ==
    \A i \in Ids :
        (calls[i].pc = "new" /\ calls'[i].pc = "scrape")
            => calls'[i].previousData =
                   (IF Authoritative(i).threw THEN Null ELSE Authoritative(i).data)

\* C38: the previous snapshot a refresh loads at its start is the snapshot
\* loadSkillsDataAsync would return at that moment by storage priority.
C38_PreviousIsAuthoritative == [][C38_Step]_vars

\* The sources a run has fetched successfully so far.
FetchedOk(c) == {k \in DOMAIN c.fetched : c.fetched[k].ok}

\* The cache agrees with the cache the run loaded everywhere but at the
\* sources fetched successfully.
SameButFetched(cache, c) ==
    /\ DOMAIN cache = DOMAIN c.cache0 \cup FetchedOk(c)
    /\ \A k \in DOMAIN c.cache0 \ FetchedOk(c) : cache[k] = c.cache0[k]

C39_State ==
    \A i \in Ids : calls[i].pc = "fetch" => SameButFetched(calls[i].cache, calls[i])

C39_Step ==
    /\ \A p \in pendingPuts' \ pendingPuts :
          p.kind = "cache" => SameButFetched(p.payload, calls'[p.by])
    /\ s3Cache' # s3Cache =>
          \E p \in pendingPuts \ pendingPuts' : p.kind = "cache" /\ s3Cache' = p.payload
    /\ probe' # probe => UNCHANGED <<s3Cache, pendingPuts, calls>>

AggregationsCurrent ==
    /\ cachedSources # Null =>
           cachedData # Null /\ cachedSources = computeSources(cachedData.skills)
    /\ cachedOwners # Null =>
           cachedData # Null /\ cachedOwners = computeOwners(cachedData.skills)
    /\ \A limit \in DOMAIN cachedTopSkills :
           /\ cachedData # Null
           /\ cachedTopSkills[limit] = computeTopSkills(cachedData.skills, limit)

\* What a read answers is the aggregation of the snapshot held when it returns.
ReadIsCurrent ==
    probe' # probe =>
        probe'.answer =
            CASE probe'.what = "getSources" -> computeSources(cachedData'.skills)
              [] probe'.what = "getOwners" -> computeOwners(cachedData'.skills)
              [] OTHER -> computeTopSkills(cachedData'.skills, probe'.limit)

====
